---- MODULE Spec2Model ----
(***************************************************************************)
(* The session manager of the Superset agent                               *)
(* (src/03. code/utils/superset_auth.py, class SupersetAuthManager) as a   *)
(* state machine.                                                          *)
(*                                                                         *)
(* The state is the token set of the one SupersetAuthManager, the clock    *)
(* read by datetime.now(), and the position and locals of the              *)
(* execute_query call in progress.  The remote service is the environment: *)
(* every HTTP request draws its response from a small set that covers a    *)
(* refused connection, any other exception of the HTTP library, every      *)
(* status code the code branches on, a body that is not JSON, and JSON     *)
(* bodies with fields present or missing.                                  *)
(*                                                                         *)
(* Python values: None (and every falsy value read with .get) is the       *)
(* string "None"; a datetime is a number of minutes; a message is the      *)
(* sequence of its parts, so that "contains" is membership of a part.      *)
(***************************************************************************)
EXTENDS Integers, Sequences, FiniteSets, TLC

\* ------------------------------------------------------------------ values

None == "None"
\* The value [] that .get("data", []) and .get("columns", []) default to.
EmptyList == "[]"
\* token_expiry = None
NoExpiry == -1
\* database_id = None (the ids the service hands out start at 1)
NoDatabaseId == 0

AccessTokens == {"at1", "at2"}
\* The refresh token the login endpoint sends along with an access token,
\* and the CSRF token the service hands out to a bearer of that token.
RefreshTokenOf(at) == IF at = "at1" THEN "rt1" ELSE "rt2"
CsrfTokenOf(at) == IF at = "at1" THEN "csrf1" ELSE "csrf2"

\* timedelta(minutes=10)
TTL == 10
\* max_attempts of the poll loop
max_attempts == 30
\* query_limit = 100 when none is given
DefaultQueryLimit == 100

\* The clock advances TickStep minutes at a time, up to MaxClock.
TickStep == 5
MaxClock == 11
\* Entries of the database list, at most.
MaxDatabases == 2
\* Threads of the process that call the manager at the same time.
NumThreads == 2
\* SupersetAuthManager objects constructed in one run.
MaxInstances == 2
\* reset_instance() calls in one run.
MaxResets == 1

CodeStr(c) ==
    CASE c = 200 -> "200" [] c = 202 -> "202" [] c = 401 -> "401"
      [] c = 403 -> "403" [] c = 500 -> "500" [] OTHER -> "0"

Range(s) == {s[i] : i \in DOMAIN s}

\* A result record {"status": ..., "message": ...}; data and columns are
\* set by execute_query only.
Result(status, message) ==
    [status |-> status, message |-> message, data |-> None, columns |-> None]

NoResult == Result(None, <<>>)

\* -------------------------------------------------------- remote responses

\* What an HTTP request can give: an exception of the HTTP library
\* (requests.exceptions.ConnectionError, or any other), or a response with
\* a status code and a body that .json() parses to an object or not.
\* A JSON object may lack every field the code reads (an intermediary's
\* body); .get then gives None.

LoginResponse(kind, code, json, at, rt) ==
    [kind |-> kind, status_code |-> code, json |-> json,
     access_token |-> at, refresh_token |-> rt]

NoLogin == LoginResponse("unsent", 0, FALSE, None, None)

LoginResponses ==
    {LoginResponse("ConnectionError", 0, FALSE, None, None)}
    \cup {LoginResponse("http", c, FALSE, None, None) : c \in {403, 500}}
    \cup {LoginResponse("http", 200, FALSE, None, None)}
    \cup {LoginResponse("http", 200, TRUE, None, None)}
    \cup {LoginResponse("http", 200, TRUE, at, RefreshTokenOf(at)) : at \in AccessTokens}

CsrfResponse(kind, code, json, result) ==
    [kind |-> kind, status_code |-> code, json |-> json, result |-> result]

NoCsrf == CsrfResponse("unsent", 0, FALSE, None)

\* The CSRF token the service hands out belongs to the bearer token.
CsrfResponses(bearer) ==
    {CsrfResponse("ConnectionError", 0, FALSE, None)}
    \cup {CsrfResponse("http", 500, FALSE, None)}
    \cup {CsrfResponse("http", 200, FALSE, None)}
    \cup {CsrfResponse("http", 200, TRUE, r) : r \in {CsrfTokenOf(bearer), None}}

\* The two responses of one authenticate(): the CSRF request is sent only
\* after a login answered 200 with a JSON object.  The login endpoint signs
\* a new token at every login: it never hands out the token the client
\* holds at the time of the call.
LoginOk(lr) == lr.kind = "http" /\ lr.status_code = 200 /\ lr.json

AuthExchanges(held) ==
    {<<lr, NoCsrf>> : lr \in {l \in LoginResponses : ~LoginOk(l)}}
    \cup UNION {{<<lr, cr>> : cr \in CsrfResponses(lr.access_token)} :
                lr \in {l \in LoginResponses :
                           /\ LoginOk(l)
                           /\ l.access_token \in AccessTokens => l.access_token # held}}

NoExchange == <<NoLogin, NoCsrf>>

DatabaseNames == {"PostgreSQL", "postgresql", "sales"}

\* GET /api/v1/database/: {"result": [{"id": ..., "database_name": ...}]}.
\* The service numbers its databases 1, 2, ... in the order of the list.
DatabaseLists ==
    UNION {[1..n -> DatabaseNames] : n \in 0..MaxDatabases}

Databases(names) ==
    [i \in DOMAIN names |-> [id |-> i, database_name |-> names[i]]]

DatabaseResponse(kind, code, json, result) ==
    [kind |-> kind, status_code |-> code, json |-> json, result |-> result]

NoDatabases == DatabaseResponse("unsent", 0, FALSE, <<>>)

DatabaseResponses ==
    {DatabaseResponse("ConnectionError", 0, FALSE, <<>>)}
    \cup {DatabaseResponse("http", c, FALSE, <<>>) : c \in {401, 500}}
    \cup {DatabaseResponse("http", 200, FALSE, <<>>)}
    \cup {DatabaseResponse("http", 200, TRUE, Databases(names)) : names \in DatabaseLists}

\* POST /api/v1/sqllab/execute/ and GET /api/v1/sqllab/results/: the fields
\* of the JSON object that execute_query reads.  data = None: the object
\* has no "data" key.  id: result_data["id"] or result_data["query"]["id"].
\* errors: None (no "errors" key), EmptyList, or the first element of the
\* list.
Payload(status, data, columns, id, error, errors) ==
    [status |-> status, data |-> data, columns |-> columns, id |-> id,
     error |-> error, errors |-> errors]

NoPayload == Payload(None, None, None, None, None, None)

Payloads ==
    {Payload("success", "rows1", "cols1", None, None, None),
     Payload("success", "rows2", None, None, None, None),
     Payload("success", None, None, None, None, None),
     Payload(None, "rows1", "cols1", None, None, None),
     NoPayload,
     Payload("pending", None, None, "q1", None, None),
     Payload("pending", None, None, None, None, None),
     Payload("running", None, None, "q1", None, None),
     Payload("error", None, None, None, "err1", None),
     Payload("error", None, None, None, None, "err2"),
     Payload("error", None, None, None, None, None),
     Payload("error", None, None, None, None, EmptyList),
     Payload("error", "rows1", "cols1", None, "err1", None)}

QueryResponse(kind, code, json, payload) ==
    [kind |-> kind, status_code |-> code, json |-> json, payload |-> payload]

NoResponse == QueryResponse("unsent", 0, FALSE, NoPayload)

ExecuteResponses ==
    {QueryResponse("ConnectionError", 0, FALSE, NoPayload)}
    \cup {QueryResponse("http", c, FALSE, NoPayload) : c \in {200, 202, 401, 500}}
    \cup {QueryResponse("http", c, TRUE, p) : c \in {200, 202}, p \in Payloads}

ResultsResponses ==
    {QueryResponse("ConnectionError", 0, FALSE, NoPayload)}
    \cup {QueryResponse("http", c, FALSE, NoPayload) : c \in {200, 401, 500}}
    \cup {QueryResponse("http", 200, TRUE, p) : p \in Payloads}

\* query_limit = None
NoQueryLimit == -1

\* The arguments of get_database_id and of execute_query.
DatabaseNameArgs == {"PostgreSQL", "postgresql"}

QueryArgs(sql, database_id, database_name, query_limit) ==
    [sql |-> sql, database_id |-> database_id, database_name |-> database_name,
     query_limit |-> query_limit]

ExecuteQueryArgs ==
    {QueryArgs("SELECT 1", NoDatabaseId, "PostgreSQL", NoQueryLimit),
     QueryArgs("SELECT 1", NoDatabaseId, "postgresql", 5),
     QueryArgs("SELECT 1", 1, "PostgreSQL", NoQueryLimit)}


\* ------------------------------------------------------------------- state

VARIABLES
    access_token,   \* self.access_token
    csrf_token,     \* self.csrf_token
    refresh_token,  \* self.refresh_token
    token_expiry,   \* self.token_expiry
    session,        \* self.session: which requests.Session object is in use
    clock,          \* datetime.now()
    pc,             \* where the call in progress stands ("idle": none)
    call,           \* its operation, arguments and locals
    request,        \* the execute request it sent last
    posts,          \* execute POSTs it has sent
    polls,          \* results GETs it has sent
    reauths,        \* force_reauthenticate() calls it has made
    last,           \* the last call that returned: what it returned, and
                    \* the database list or the query response its last
                    \* step was given
    raised,         \* an exception escaped that call
    output,         \* what the tool function called last returned
    agent,          \* the global agent of app.py
    reply,          \* the response of the app to the last request
    instance,       \* SupersetAuthManager._instance (0: None)
    instances,      \* the SupersetAuthManager objects constructed so far
    resets,         \* reset_instance() calls made so far
    caller,         \* each thread's place in get_instance() and what it got
    thread          \* each thread's place in its execute_query() on the
                    \* manager all threads share, and the request it sent

manager == <<access_token, csrf_token, refresh_token, token_expiry, session>>
progress == <<pc, call, request, posts, polls, reauths>>
tools == <<output, agent, reply>>
cls == <<instance, instances, resets, caller>>
concurrent == <<cls, thread>>
vars == <<manager, clock, progress, last, raised, tools, concurrent>>

\* The fields of the SupersetAuthManager as one record.
Self ==
    [access_token |-> access_token, csrf_token |-> csrf_token,
     refresh_token |-> refresh_token, token_expiry |-> token_expiry,
     session |-> session]

\* __init__
NewManager ==
    [access_token |-> None, csrf_token |-> None, refresh_token |-> None,
     token_expiry |-> NoExpiry, session |-> 0]

\* requests.Session(): an object that is not the one in use.  Only the
\* object in use and the one before it are ever told apart.
NewSession(in_use) == 1 - in_use

\* ------------------------------------------------------ SupersetAuthManager

\* is_authenticated taking the presence of a token for its validity.
is_authenticated_by_token(self, now) == self.access_token # None

is_authenticated(self, now) ==
    IF self.access_token = None THEN FALSE
    ELSE IF self.token_expiry # NoExpiry /\ now >= self.token_expiry THEN FALSE
    ELSE TRUE

\* get_headers without the X-CSRFToken header.
get_headers_without_csrf(self) ==
    [ContentType |-> "application/json",
     Authorization |-> IF self.access_token # None
                       THEN <<"Bearer", self.access_token>> ELSE <<>>,
     XCSRFToken |-> None]

\* A header the dict does not hold is None.
get_headers(self) ==
    [ContentType |-> "application/json",
     Authorization |-> IF self.access_token # None
                       THEN <<"Bearer", self.access_token>> ELSE <<>>,
     XCSRFToken |-> IF self.csrf_token # None THEN self.csrf_token ELSE None]

\* What a call or a step of a call gives: the manager after it; the
\* exception that left it, or "none" (an exception of a callee leaves the
\* caller too, unless a try block of the caller holds the call); the value
\* returned (ret a result
\* record, id a database id) when pc = "return", else the place pc where
\* the call goes on.
Returned(self, ret) ==
    [self |-> self, ret |-> ret, id |-> NoDatabaseId, exc |-> "none", pc |-> "return"]
ReturnedId(self, id) ==
    [self |-> self, ret |-> NoResult, id |-> id, exc |-> "none", pc |-> "return"]
Raised(self, exc) ==
    [self |-> self, ret |-> NoResult, id |-> NoDatabaseId, exc |-> exc, pc |-> "return"]
Goto(self, place) ==
    [self |-> self, ret |-> NoResult, id |-> NoDatabaseId, exc |-> "none", pc |-> place]

\* authenticate_try with the status code left out of the message of a
\* failed login.
authenticate_try_without_code(self, now, lr, cr) ==
    IF lr.kind # "http" THEN Raised(self, lr.kind)
    ELSE IF lr.status_code # 200 THEN
        Returned(self, Result("error", <<"Login failed">>))
    ELSE IF ~lr.json THEN Raised(self, "Exception")
    ELSE
        LET s1 == [self EXCEPT !.access_token = lr.access_token,
                               !.refresh_token = lr.refresh_token,
                               !.token_expiry = now + TTL]
        IN  IF cr.kind # "http" THEN Raised(s1, cr.kind)
            ELSE IF cr.status_code = 200 /\ ~cr.json THEN Raised(s1, "Exception")
            ELSE
                LET s2 == IF cr.status_code = 200
                          THEN [s1 EXCEPT !.csrf_token = cr.result]
                          ELSE s1
                IN  Returned(s2, Result("success",
                        <<"Successfully authenticated with Superset">>))

\* The try block of authenticate (lines 61-111).
authenticate_try(self, now, lr, cr) ==
    IF lr.kind # "http" THEN Raised(self, lr.kind)
    ELSE IF lr.status_code # 200 THEN
        Returned(self, Result("error",
            <<"Login failed with status", CodeStr(lr.status_code)>>))
    ELSE IF ~lr.json THEN Raised(self, "Exception")
    ELSE
        LET s1 == [self EXCEPT !.access_token = lr.access_token,
                               !.refresh_token = lr.refresh_token,
                               !.token_expiry = now + TTL]
        IN  IF cr.kind # "http" THEN Raised(s1, cr.kind)
            ELSE IF cr.status_code = 200 /\ ~cr.json THEN Raised(s1, "Exception")
            ELSE
                LET s2 == IF cr.status_code = 200
                          THEN [s1 EXCEPT !.csrf_token = cr.result]
                          ELSE s1
                IN  Returned(s2, Result("success",
                        <<"Successfully authenticated with Superset">>))

\* authenticate: the try block and its two except clauses.
authenticate(self, now, lr, cr) ==
    LET t == authenticate_try(self, now, lr, cr)
    IN  IF t.exc = "ConnectionError" THEN
            Returned(t.self, Result("error", <<"Could not connect to Superset">>))
        ELSE IF t.exc # "none" THEN
            Returned(t.self, Result("error", <<"Authentication error">>))
        ELSE t

refresh_authentication(self, now, lr, cr) ==
    IF is_authenticated(self, now) THEN
        Returned(self, Result("success", <<"Authentication still valid">>))
    ELSE authenticate(self, now, lr, cr)

\* force_reauthenticate leaving the tokens as they are.
force_reauthenticate_keeping_tokens(self) ==
    [self EXCEPT !.session = NewSession(self.session)]

\* Lines 135-140 of force_reauthenticate: the manager once the tokens are
\* cleared and the session is replaced, before authenticate() is called.
force_reauthenticate_clear(self) ==
    [access_token |-> None, csrf_token |-> None,
     refresh_token |-> None, token_expiry |-> NoExpiry,
     session |-> NewSession(self.session)]

force_reauthenticate(self, now, lr, cr) ==
    authenticate(force_reauthenticate_clear(self), now, lr, cr)

\* ensure_authenticated calling authenticate() whatever is_authenticated()
\* gives.
ensure_authenticated_eagerly(self, now, lr, cr) == authenticate(self, now, lr, cr)

\* "Ensure we're authenticated" (lines 148-151, 185-189, 239-242):
\* authenticate() is called only when is_authenticated() is false.
ensure_authenticated(self, now, lr, cr) ==
    IF ~is_authenticated(self, now) THEN authenticate(self, now, lr, cr)
    ELSE Returned(self, Result("success", <<>>))

\* Lines 148-151 of test_connection.
test_connection_authenticate(self, now, lr, cr) ==
    LET auth_result == ensure_authenticated(self, now, lr, cr)
    IN  IF auth_result.exc # "none" THEN auth_result
        ELSE IF auth_result.ret.status # "success" THEN
            Returned(auth_result.self, Result("error", auth_result.ret.message))
        ELSE Goto(auth_result.self, "test")

\* The try block of test_connection (lines 154-174).
test_connection_try(self, dr) ==
    IF dr.kind # "http" THEN Raised(self, dr.kind)
    ELSE IF dr.status_code = 200 THEN
        IF ~dr.json THEN Raised(self, "Exception")
        ELSE Returned(self, Result("success", <<"Connection successful">>))
    ELSE Returned(self, Result("error",
            <<"Connection test failed with status", CodeStr(dr.status_code)>>))

\* Lines 153-180 of test_connection: the try block and its except clause.
test_connection_request(self, dr) ==
    LET t == test_connection_try(self, dr)
    IN  IF t.exc # "none" THEN
            Returned(t.self, Result("error", <<"Connection test error">>))
        ELSE t

\* Lines 185-189 of get_database_id.
get_database_id_authenticate(self, now, lr, cr) ==
    LET auth_result == ensure_authenticated(self, now, lr, cr)
    IN  IF auth_result.exc # "none" THEN auth_result
        ELSE IF auth_result.ret.status # "success" THEN
            ReturnedId(auth_result.self, NoDatabaseId)
        ELSE Goto(auth_result.self, "databases")

\* find_database comparing the names without regard to case.
Lower(name) == IF name = "PostgreSQL" THEN "postgresql" ELSE name

RECURSIVE find_database_ignoring_case(_, _, _)
find_database_ignoring_case(databases, database_name, i) ==
    IF i > Len(databases) THEN NoDatabaseId
    ELSE IF Lower(databases[i].database_name) = Lower(database_name)
         THEN databases[i].id
    ELSE find_database_ignoring_case(databases, database_name, i + 1)

\* The for loop of get_database_id (lines 204-208) from entry i on: the id
\* of the first entry named database_name, NoDatabaseId when the loop ends.
RECURSIVE find_database(_, _, _)
find_database(databases, database_name, i) ==
    IF i > Len(databases) THEN NoDatabaseId
    ELSE IF databases[i].database_name = database_name THEN databases[i].id
    ELSE find_database(databases, database_name, i + 1)

\* The try block of get_database_id (lines 192-220).
get_database_id_try(self, database_name, dr) ==
    IF dr.kind # "http" THEN Raised(self, dr.kind)
    ELSE IF dr.status_code = 200 THEN
        IF ~dr.json THEN Raised(self, "Exception")
        ELSE
            LET databases == dr.result
                found == find_database(databases, database_name, 1)
            IN  IF found # NoDatabaseId THEN ReturnedId(self, found)
                ELSE IF databases # <<>> THEN ReturnedId(self, databases[1].id)
                ELSE ReturnedId(self, NoDatabaseId)
    ELSE ReturnedId(self, NoDatabaseId)

\* Lines 191-224 of get_database_id: the try block and its except clause.
get_database_id_request(self, database_name, dr) ==
    LET t == get_database_id_try(self, database_name, dr)
    IN  IF t.exc # "none" THEN ReturnedId(t.self, NoDatabaseId) ELSE t

\* ----------------------------------------------------------- execute_query

\* {"status": "success", "data": d.get("data", []), "columns": d.get("columns", [])}
QuerySuccess(d) ==
    [status |-> "success", message |-> <<>>,
     data |-> IF d.data = None THEN EmptyList ELSE d.data,
     columns |-> IF d.columns = None THEN EmptyList ELSE d.columns]

\* d.get("error") or d.get("errors", ["Unknown error"])[0]; the index
\* raises IndexError on an empty list.
error_msg_raises(d) == d.error = None /\ d.errors = EmptyList
error_msg(d) ==
    IF d.error # None THEN d.error
    ELSE IF d.errors = None THEN "Unknown error"
    ELSE d.errors

\* Lines 239-242: authentication on first use.
execute_query_authenticate(self, now, lr, cr) ==
    LET auth_result == ensure_authenticated(self, now, lr, cr)
    IN  IF auth_result.exc # "none" THEN auth_result
        ELSE IF auth_result.ret.status # "success" THEN
            Returned(auth_result.self, Result("error", auth_result.ret.message))
        ELSE Goto(auth_result.self, "resolve")

\* Lines 245-248, once get_database_id has returned id.
execute_query_resolved(self, database_name, id) ==
    IF id = NoDatabaseId THEN
        Returned(self, Result("error", <<"Could not find database", database_name>>))
    ELSE Goto(self, "post")

\* uuid.uuid4(): the n-th value the call draws.  No two draws give the same
\* value; the values of different calls are never compared.
uuid4(n) == <<"uuid4", n>>

\* str(u)[:chars]
Prefix(u, chars) == [of |-> u, chars |-> chars]

\* Lines 251-273: the payload of the execute request.
execute_payload(sql, database_id, query_limit) ==
    [client_id |-> Prefix(uuid4(1), 11), sql_editor_id |-> Prefix(uuid4(2), 8),
     sql |-> sql, database_id |-> database_id, runAsync |-> FALSE,
     queryLimit |-> IF query_limit = NoQueryLimit THEN DefaultQueryLimit
                    ELSE query_limit]

\* Line 259, without the base URL.
execute_url == "/api/v1/sqllab/execute/"

\* Lines 278-282: the execute POST.
execute_request(self, payload) ==
    [url |-> execute_url, payload |-> payload, headers |-> get_headers(self)]

\* retry_request with a payload that is built again for the second POST.
retry_request_rebuilt(self, first) ==
    [url |-> first.url,
     payload |-> [first.payload EXCEPT !.client_id = Prefix(uuid4(3), 11),
                                       !.sql_editor_id = Prefix(uuid4(4), 8)],
     headers |-> get_headers(self)]

\* Lines 353-357: the POST sent again, to execute_url with the payload of
\* the first POST (first) and the headers of the tokens held now.
retry_request(self, first) ==
    [url |-> first.url, payload |-> first.payload, headers |-> get_headers(self)]

\* Lines 284-376: the branches on the response of the first execute POST,
\* up to the poll loop.
execute_query_response(self, now, er, lr, cr) ==
    IF er.kind # "http" THEN Raised(self, er.kind)
    ELSE IF er.status_code \in {200, 202} THEN
        IF ~er.json THEN Raised(self, "Exception")
        ELSE
            LET result_data == er.payload
            IN  IF er.status_code = 202 \/ result_data.status = "pending" THEN
                    Goto(self, "poll")
                ELSE IF result_data.status = "success" \/ result_data.data # None THEN
                    Returned(self, QuerySuccess(result_data))
                ELSE IF result_data.status = "error" THEN
                    IF error_msg_raises(result_data) THEN Raised(self, "Exception")
                    ELSE Returned(self, Result("error",
                            <<"Query error", error_msg(result_data)>>))
                ELSE Returned(self, QuerySuccess(result_data))
    ELSE IF er.status_code = 401 THEN
        LET reauth_result == force_reauthenticate(self, now, lr, cr)
        IN  IF reauth_result.ret.status = "success" THEN
                Goto(reauth_result.self, "retry")
            ELSE Returned(reauth_result.self, Result("error",
                    <<"Reauthentication failed">> \o reauth_result.ret.message))
    ELSE Returned(self, Result("error", <<"Query execution failed">>))

\* execute_query_retry taking status 200 alone for an answer.
execute_query_retry_200_only(self, rr) ==
    IF rr.kind # "http" THEN Raised(self, rr.kind)
    ELSE IF rr.status_code = 200 /\ ~rr.json THEN Raised(self, "Exception")
    ELSE IF /\ rr.status_code = 200
            /\ (rr.payload.status = "success" \/ rr.payload.data # None)
         THEN Returned(self, QuerySuccess(rr.payload))
    ELSE Returned(self, Result("error", <<"Query failed after reauthentication">>))

\* execute_query_retry sending the request again after another 401.
execute_query_retry_again(self, rr) ==
    IF rr.kind # "http" THEN Raised(self, rr.kind)
    ELSE IF rr.status_code = 401 THEN Goto(self, "post")
    ELSE IF rr.status_code \in {200, 202} /\ ~rr.json THEN Raised(self, "Exception")
    ELSE IF /\ rr.status_code \in {200, 202}
            /\ (rr.payload.status = "success" \/ rr.payload.data # None)
         THEN Returned(self, QuerySuccess(rr.payload))
    ELSE Returned(self, Result("error", <<"Query failed after reauthentication">>))

\* execute_query_retry going on to the poll loop when the POST sent again
\* is answered 202 or "pending", as the first POST does.
execute_query_retry_polled(self, rr) ==
    IF rr.kind # "http" THEN Raised(self, rr.kind)
    ELSE IF rr.status_code \in {200, 202} /\ ~rr.json THEN Raised(self, "Exception")
    ELSE IF /\ rr.status_code \in {200, 202}
            /\ (rr.status_code = 202 \/ rr.payload.status = "pending")
         THEN Goto(self, "poll")
    ELSE IF /\ rr.status_code \in {200, 202}
            /\ (rr.payload.status = "success" \/ rr.payload.data # None)
         THEN Returned(self, QuerySuccess(rr.payload))
    ELSE Returned(self, Result("error", <<"Query failed after reauthentication">>))

\* Lines 353-370: the response of the POST sent again after a
\* reauthentication.
execute_query_retry(self, rr) ==
    IF rr.kind # "http" THEN Raised(self, rr.kind)
    ELSE IF rr.status_code \in {200, 202} /\ ~rr.json THEN Raised(self, "Exception")
    ELSE IF /\ rr.status_code \in {200, 202}
            /\ (rr.payload.status = "success" \/ rr.payload.data # None)
         THEN Returned(self, QuerySuccess(rr.payload))
    ELSE Returned(self, Result("error", <<"Query failed after reauthentication">>))

\* execute_query_poll without the return on "success": the loop goes on.
execute_query_poll_on(self, attempt, sr) ==
    LET next == IF attempt + 1 < max_attempts THEN Goto(self, "poll")
                ELSE Returned(self, Result("error", <<"Query timeout">>))
    IN  IF sr.kind # "http" THEN Raised(self, sr.kind)
        ELSE IF sr.status_code = 200 THEN
            IF ~sr.json THEN Raised(self, "Exception")
            ELSE
                LET status_data == sr.payload
                IN  IF status_data.status = "error" THEN
                        IF error_msg_raises(status_data) THEN Raised(self, "Exception")
                        ELSE Returned(self, Result("error",
                                <<"Query error", error_msg(status_data)>>))
                    ELSE next
        ELSE next

\* execute_query_poll with a loop of max_attempts + 1 iterations.
execute_query_poll_once_more(self, attempt, sr) ==
    LET next == IF attempt + 1 < max_attempts + 1 THEN Goto(self, "poll")
                ELSE Returned(self, Result("error", <<"Query timeout">>))
    IN  IF sr.kind # "http" THEN Raised(self, sr.kind)
        ELSE IF sr.status_code = 200 THEN
            IF ~sr.json THEN Raised(self, "Exception")
            ELSE
                LET status_data == sr.payload
                IN  IF status_data.status = "success" THEN
                        Returned(self, QuerySuccess(status_data))
                    ELSE IF status_data.status = "error" THEN
                        IF error_msg_raises(status_data) THEN Raised(self, "Exception")
                        ELSE Returned(self, Result("error",
                                <<"Query error", error_msg(status_data)>>))
                    ELSE next
        ELSE next

\* execute_query_poll giving up at a results response of status 401, with
\* the token fields cleared as force_reauthenticate() clears them.
execute_query_poll_unauthorized(self, attempt, sr) ==
    LET next == IF attempt + 1 < max_attempts THEN Goto(self, "poll")
                ELSE Returned(self, Result("error", <<"Query timeout">>))
        cleared == [access_token |-> None, csrf_token |-> None,
                    refresh_token |-> None, token_expiry |-> NoExpiry,
                    session |-> NewSession(self.session)]
    IN  IF sr.kind # "http" THEN Raised(self, sr.kind)
        ELSE IF sr.status_code = 200 THEN
            IF ~sr.json THEN Raised(self, "Exception")
            ELSE
                LET status_data == sr.payload
                IN  IF status_data.status = "success" THEN
                        Returned(self, QuerySuccess(status_data))
                    ELSE IF status_data.status = "error" THEN
                        IF error_msg_raises(status_data) THEN Raised(self, "Exception")
                        ELSE Returned(self, Result("error",
                                <<"Query error", error_msg(status_data)>>))
                    ELSE next
        ELSE IF sr.status_code = 401 THEN
            Returned(cleared, Result("error", <<"Reauthentication failed">>))
        ELSE next

\* Lines 294-321: iteration number attempt (0, 1, ...) of the poll loop,
\* and the return behind the loop when it was the last one.
execute_query_poll(self, attempt, sr) ==
    LET next == IF attempt + 1 < max_attempts THEN Goto(self, "poll")
                ELSE Returned(self, Result("error", <<"Query timeout">>))
    IN  IF sr.kind # "http" THEN Raised(self, sr.kind)
        ELSE IF sr.status_code = 200 THEN
            IF ~sr.json THEN Raised(self, "Exception")
            ELSE
                LET status_data == sr.payload
                IN  IF status_data.status = "success" THEN
                        Returned(self, QuerySuccess(status_data))
                    ELSE IF status_data.status = "error" THEN
                        IF error_msg_raises(status_data) THEN Raised(self, "Exception")
                        ELSE Returned(self, Result("error",
                                <<"Query error", error_msg(status_data)>>))
                    ELSE next
        ELSE next

\* execute_query_except catching requests.exceptions.ConnectionError only.
execute_query_except_connection_only(step) ==
    IF step.exc = "ConnectionError" THEN
        Returned(step.self, Result("error", <<"Query execution error">>))
    ELSE step

\* Lines 378-380: the except clause around the requests of execute_query.
execute_query_except(step) ==
    IF step.exc # "none" THEN
        Returned(step.self, Result("error", <<"Query execution error">>))
    ELSE step

\* What the remote service answers during one call of execute_query: to
\* the logins of authentication on first use, to the login of
\* force_reauthenticate(), to the database list request, to the execute
\* POST, to the POST sent again, and to the results requests (the first
\* pending of them find the query running).
Environment(login, relogin, databases, execute, retry, pending, results) ==
    [login |-> login, relogin |-> relogin, databases |-> databases,
     execute |-> execute, retry |-> retry, pending |-> pending,
     results |-> results]

Running == QueryResponse("http", 200, TRUE,
                Payload("running", None, None, None, None, None))

\* Lines 294-321: the poll loop from iteration attempt on.
RECURSIVE execute_query_polls(_, _, _)
execute_query_polls(self, attempt, env) ==
    LET sr == IF attempt < env.pending THEN Running ELSE env.results
        p == execute_query_except(execute_query_poll(self, attempt, sr))
    IN  IF p.pc = "poll" THEN execute_query_polls(p.self, attempt + 1, env)
        ELSE p

\* get_database_id(database_name) as one call.
get_database_id(self, now, database_name, env) ==
    LET Request(g) ==
            IF g.pc = "return" THEN g
            ELSE get_database_id_request(g.self, database_name, env.databases)
    IN  Request(get_database_id_authenticate(self, now, env.login[1], env.login[2]))

\* Lines 245-248: the database id of the call, kept in id.
execute_query_resolve(self, now, a, env) ==
    LET Resolved(r) ==
            IF r.exc = "none"
            THEN [execute_query_resolved(r.self, a.database_name, r.id) EXCEPT !.id = r.id]
            ELSE r
    IN  IF a.database_id # NoDatabaseId
        THEN [Goto(self, "post") EXCEPT !.id = a.database_id]
        ELSE Resolved(get_database_id(self, now, a.database_name, env))

\* execute_query(sql, database_id, database_name, query_limit) as one
\* call: what it returns, the manager it leaves, and the payload of the
\* execute POST when it sent one (sent).
execute_query(self, now, a, env) ==
    LET Unsent(s) ==
            [call |-> s, sent |-> FALSE,
             payload |-> execute_payload(None, NoDatabaseId, NoQueryLimit)]
        Sent(s, id) ==
            [call |-> s, sent |-> TRUE,
             payload |-> execute_payload(a.sql, id, a.query_limit)]
        Answered(s3, id) ==
            IF s3.pc = "retry" THEN
                Sent(execute_query_except(execute_query_retry(s3.self, env.retry)), id)
            ELSE IF s3.pc = "poll" THEN Sent(execute_query_polls(s3.self, 0, env), id)
            ELSE Sent(s3, id)
        Resolved(s2) ==
            IF s2.pc = "return" THEN Unsent(s2)
            ELSE Answered(execute_query_except(
                            execute_query_response(s2.self, now, env.execute,
                                                   env.relogin[1], env.relogin[2])),
                          s2.id)
        Authenticated(s1) ==
            IF s1.pc = "return" THEN Unsent(s1)
            ELSE Resolved(execute_query_resolve(s1.self, now, a, env))
    IN  Authenticated(execute_query_authenticate(self, now, env.login[1], env.login[2]))

\* ----------------------------------------------------------------- actions

\* entry: what is_authenticated() gave at line 239 of execute_query.
Call(op, args) ==
    [op |-> op, sql |-> args.sql, database_id |-> args.database_id,
     database_name |-> args.database_name, query_limit |-> args.query_limit,
     query_id |-> None, attempt |-> 0, entry |-> FALSE]

NoArgs == QueryArgs(None, NoDatabaseId, None, NoQueryLimit)
NoCall == Call("none", NoArgs)

\* What a caller can call.
Calls ==
    {Call(op, NoArgs) : op \in {"authenticate", "refresh_authentication",
                                 "force_reauthenticate", "test_connection",
                                 "get_headers"}}
    \cup {Call("get_database_id", [NoArgs EXCEPT !.database_name = n]) :
            n \in DatabaseNameArgs}
    \cup {Call("execute_query", args) : args \in ExecuteQueryArgs}

NoRequest ==
    [url |-> None, payload |-> execute_payload(None, NoDatabaseId, NoQueryLimit),
     headers |-> get_headers(NewManager)]

\* The headers of a call that returned none.
NoHeaders == [ContentType |-> None, Authorization |-> <<>>, XCSRFToken |-> None]

Last(op, ret, id, dr, qr) ==
    [op |-> op, ret |-> ret, id |-> id, db |-> dr, response |-> qr,
     headers |-> NoHeaders]

NoLast == Last("none", NoResult, NoDatabaseId, NoDatabases, NoResponse)

\* The agent executor holds no return value of a tool: output is the tool
\* that ran, the query (or name) and the limit it was called with, what it
\* gave, and what execute_query returned to it and sent for it.
NoOutput ==
    [tool |-> "none", query |-> "", limit |-> 0, text |-> "", raised |-> FALSE,
     result |-> NoResult, sent |-> FALSE,
     payload |-> execute_payload(None, NoDatabaseId, NoQueryLimit)]

\* agent = None of app.py
NoAgent == [provider |-> None, model |-> None]

\* No request was made to the app yet.
NoReply ==
    [status_code |-> 0, detail |-> "", answer |-> "", status |-> "", message |-> ""]

\* The threads of the process.
Threads == 1..NumThreads

\* A thread that has not called get_instance(): at no line of it (pc), with
\* no object constructed (made) nor returned to it (got).
NoCaller == [pc |-> "idle", made |-> 0, got |-> 0]

\* A thread that is not inside execute_query(): entry is what
\* is_authenticated() gave it at line 239, database_id the id it looked
\* up, request the execute request it sent last, cleared whether another
\* thread was inside force_reauthenticate(), the tokens cleared, when it
\* built that request, reauths the force_reauthenticate() calls of its
\* call, ret the status of the result of its last call.
NoThread ==
    [pc |-> "idle", entry |-> FALSE, database_id |-> NoDatabaseId,
     request |-> NoRequest, cleared |-> FALSE, reauths |-> 0, ret |-> None]

Init ==
    /\ access_token = NewManager.access_token
    /\ csrf_token = NewManager.csrf_token
    /\ refresh_token = NewManager.refresh_token
    /\ token_expiry = NewManager.token_expiry
    /\ session = NewManager.session
    /\ clock = 0
    /\ pc = "idle"
    /\ call = NoCall
    /\ request = NoRequest
    /\ posts = 0
    /\ polls = 0
    /\ reauths = 0
    /\ last = [NoLast EXCEPT !.op = "__init__"]
    /\ raised = FALSE
    /\ output = NoOutput
    /\ agent = NoAgent
    /\ reply = NoReply
    /\ instance = 0
    /\ instances = <<>>
    /\ resets = 0
    /\ caller = [t \in Threads |-> NoCaller]
    /\ thread = [t \in Threads |-> NoThread]

SetManager(self) ==
    /\ access_token' = self.access_token
    /\ csrf_token' = self.csrf_token
    /\ refresh_token' = self.refresh_token
    /\ token_expiry' = self.token_expiry
    /\ session' = self.session

\* The responses of the authenticate() that ensure_authenticated makes, if
\* it makes one.
EnsureExchanges ==
    IF is_authenticated(Self, clock) THEN {NoExchange}
    ELSE AuthExchanges(access_token)

\* A step of the call in progress: the call returns, or goes on at step.pc
\* with the locals c and the request req.
Step(step, c, req, dr, qr) ==
    /\ SetManager(step.self)
    /\ IF step.pc = "return" THEN
            /\ pc' = "idle"
            /\ call' = NoCall
            /\ request' = NoRequest
            /\ last' = Last(call.op, step.ret, step.id, dr, qr)
            /\ raised' = (step.exc # "none")
       ELSE
            /\ pc' = step.pc
            /\ call' = c
            /\ request' = req
            /\ UNCHANGED <<last, raised>>
    /\ UNCHANGED <<clock, tools, concurrent>>

\* Time passes.
Tick ==
    /\ clock + TickStep <= MaxClock
    /\ clock' = clock + TickStep
    /\ UNCHANGED <<manager, progress, last, raised, tools, concurrent>>

\* A caller calls an operation of the manager.
Invoke ==
    /\ pc = "idle"
    /\ \E c \in Calls :
        /\ pc' = "called"
        /\ call' = c
    /\ request' = NoRequest
    /\ posts' = 0
    /\ polls' = 0
    /\ reauths' = 0
    /\ last' = NoLast
    /\ raised' = FALSE
    /\ UNCHANGED <<manager, clock, tools, concurrent>>

Entered(op) == pc = "called" /\ call.op = op

AuthenticateOn(x) ==
    /\ Entered("authenticate")
    /\ Step(authenticate(Self, clock, x[1], x[2]), call, request,
            NoDatabases, NoResponse)
    /\ UNCHANGED <<posts, polls, reauths>>

Authenticate == \E x \in AuthExchanges(access_token) : AuthenticateOn(x)

RefreshAuthenticationOn(x) ==
    /\ Entered("refresh_authentication")
    /\ Step(refresh_authentication(Self, clock, x[1], x[2]), call, request,
            NoDatabases, NoResponse)
    /\ UNCHANGED <<posts, polls, reauths>>

RefreshAuthentication == \E x \in EnsureExchanges : RefreshAuthenticationOn(x)

ForceReauthenticateOn(x) ==
    /\ Entered("force_reauthenticate")
    /\ Step(force_reauthenticate(Self, clock, x[1], x[2]), call, request,
            NoDatabases, NoResponse)
    /\ UNCHANGED <<posts, polls, reauths>>

ForceReauthenticate == \E x \in AuthExchanges(access_token) : ForceReauthenticateOn(x)

\* get_headers() builds a dict from the fields and assigns to none of them.
GetHeaders ==
    /\ Entered("get_headers")
    /\ pc' = "idle"
    /\ call' = NoCall
    /\ request' = NoRequest
    /\ last' = [Last(call.op, NoResult, NoDatabaseId, NoDatabases, NoResponse)
                    EXCEPT !.headers = get_headers(Self)]
    /\ raised' = FALSE
    /\ UNCHANGED <<manager, clock, posts, polls, reauths, tools, concurrent>>

\* Lines 148-151 of test_connection.
TestConnectionOn(x) ==
    /\ Entered("test_connection")
    /\ Step(test_connection_authenticate(Self, clock, x[1], x[2]), call, request,
            NoDatabases, NoResponse)
    /\ UNCHANGED <<posts, polls, reauths>>

TestConnection == \E x \in EnsureExchanges : TestConnectionOn(x)

\* Lines 153-180: the database list is asked for, and test_connection returns.
TestConnectionRequestOn(dr) ==
    /\ pc = "test"
    /\ Step(test_connection_request(Self, dr), call, request, dr, NoResponse)
    /\ UNCHANGED <<posts, polls, reauths>>

TestConnectionRequest == \E dr \in DatabaseResponses : TestConnectionRequestOn(dr)

\* Lines 185-189 of get_database_id, called by a caller.
GetDatabaseIdOn(x) ==
    /\ Entered("get_database_id")
    /\ Step(get_database_id_authenticate(Self, clock, x[1], x[2]), call, request,
            NoDatabases, NoResponse)
    /\ UNCHANGED <<posts, polls, reauths>>

GetDatabaseId == \E x \in EnsureExchanges : GetDatabaseIdOn(x)

\* Lines 239-242 of execute_query.
ExecuteQueryOn(x) ==
    /\ Entered("execute_query")
    /\ Step(execute_query_authenticate(Self, clock, x[1], x[2]),
            [call EXCEPT !.entry = is_authenticated(Self, clock)], request,
            NoDatabases, NoResponse)
    /\ UNCHANGED <<posts, polls, reauths>>

ExecuteQuery == \E x \in EnsureExchanges : ExecuteQueryOn(x)

\* Lines 245-246: execute_query goes on to the request when it was given a
\* database id; else it calls get_database_id, which runs its lines 185-189.
ExecuteQueryResolveOn(x) ==
    /\ pc = "resolve"
    /\ IF call.database_id # NoDatabaseId THEN
            Step(Goto(Self, "post"), call, request, NoDatabases, NoResponse)
       ELSE
            LET g == get_database_id_authenticate(Self, clock, x[1], x[2])
            IN  Step(IF g.pc = "return" /\ g.exc = "none"
                     THEN execute_query_resolved(g.self, call.database_name, g.id)
                     ELSE g,
                     call, request, NoDatabases, NoResponse)
    /\ UNCHANGED <<posts, polls, reauths>>

ExecuteQueryResolve ==
    \E x \in (IF call.database_id # NoDatabaseId THEN {NoExchange}
              ELSE EnsureExchanges) : ExecuteQueryResolveOn(x)

\* Lines 191-224: get_database_id asks for the database list and returns,
\* to its caller or to lines 247-248 of execute_query.
DatabaseListOn(dr) ==
    /\ pc = "databases"
    /\ LET g == get_database_id_request(Self, call.database_name, dr)
       IN  Step(IF call.op = "execute_query" /\ g.exc = "none"
                THEN execute_query_resolved(g.self, call.database_name, g.id)
                ELSE g,
                [call EXCEPT !.database_id = g.id], request, dr, NoResponse)
    /\ UNCHANGED <<posts, polls, reauths>>

DatabaseList == \E dr \in DatabaseResponses : DatabaseListOn(dr)

\* Lines 251-376: the execute POST and the branches on its response; a 401
\* is answered by force_reauthenticate().
ExecuteQueryPostOn(er, x) ==
    /\ pc = "post"
    /\ Step(execute_query_except(execute_query_response(Self, clock, er, x[1], x[2])),
            [call EXCEPT !.query_id = er.payload.id],
            execute_request(Self, execute_payload(call.sql, call.database_id,
                                                  call.query_limit)),
            NoDatabases, er)
    /\ posts' = posts + 1
    /\ reauths' = IF er.status_code = 401 THEN reauths + 1 ELSE reauths
    /\ UNCHANGED polls

ExecuteQueryPost ==
    \E er \in ExecuteResponses :
        \E x \in (IF er.status_code = 401 THEN AuthExchanges(access_token)
                  ELSE {NoExchange}) : ExecuteQueryPostOn(er, x)

\* Lines 353-370: the same request once more, with the new headers.
ExecuteQueryRetryOn(rr) ==
    /\ pc = "retry"
    /\ Step(execute_query_except(execute_query_retry(Self, rr)), call,
            retry_request(Self, request), NoDatabases, rr)
    /\ posts' = posts + 1
    /\ UNCHANGED <<polls, reauths>>

ExecuteQueryRetry == \E rr \in ExecuteResponses : ExecuteQueryRetryOn(rr)

\* Lines 294-321: one iteration of the poll loop.
ExecuteQueryPollOn(sr) ==
    /\ pc = "poll"
    /\ Step(execute_query_except(execute_query_poll(Self, call.attempt, sr)),
            [call EXCEPT !.attempt = call.attempt + 1], request, NoDatabases, sr)
    /\ polls' = polls + 1
    /\ UNCHANGED <<posts, reauths>>

ExecuteQueryPoll == \E sr \in ResultsResponses : ExecuteQueryPollOn(sr)

Next ==
    \/ Tick
    \/ Invoke
    \/ Authenticate
    \/ RefreshAuthentication
    \/ ForceReauthenticate
    \/ GetHeaders
    \/ TestConnection
    \/ TestConnectionRequest
    \/ GetDatabaseId
    \/ DatabaseList
    \/ ExecuteQuery
    \/ ExecuteQueryResolve
    \/ ExecuteQueryPost
    \/ ExecuteQueryRetry
    \/ ExecuteQueryPoll

Spec == Init /\ [][Next]_vars

\* ------------------------------------------------------------------- text
\* Python's str operations on the strings of the tool functions.

LowerCase == "abcdefghijklmnopqrstuvwxyz"
UpperCase == "ABCDEFGHIJKLMNOPQRSTUVWXYZ"

Char(s, i) == SubSeq(s, i, i)

\* The letter at the place of c in the alphabet to.
Translate(c, from, to) ==
    IF \E i \in 1..Len(from) : Char(from, i) = c
    THEN Char(to, CHOOSE i \in 1..Len(from) : Char(from, i) = c)
    ELSE c

\* s.upper()
RECURSIVE upper(_)
upper(s) ==
    IF s = "" THEN ""
    ELSE Translate(Char(s, 1), LowerCase, UpperCase) \o upper(SubSeq(s, 2, Len(s)))

\* s.lower()
RECURSIVE lower(_)
lower(s) ==
    IF s = "" THEN ""
    ELSE Translate(Char(s, 1), UpperCase, LowerCase) \o lower(SubSeq(s, 2, Len(s)))

\* sub in s
In(sub, s) ==
    \E i \in 1..(Len(s) - Len(sub) + 1) : SubSeq(s, i, i + Len(sub) - 1) = sub

\* s.rstrip(chars); chars = " \n" for s.rstrip()
RECURSIVE rstrip(_, _)
rstrip(s, chars) ==
    IF s # "" /\ In(Char(s, Len(s)), chars) THEN rstrip(SubSeq(s, 1, Len(s) - 1), chars)
    ELSE s

\* s.strip()
RECURSIVE lstrip(_, _)
lstrip(s, chars) ==
    IF s # "" /\ In(Char(s, 1), chars) THEN lstrip(SubSeq(s, 2, Len(s)), chars)
    ELSE s

Whitespace == " \n"

\* sep.join(xs)
RECURSIVE join(_, _)
join(sep, xs) ==
    IF xs = <<>> THEN ""
    ELSE IF Len(xs) = 1 THEN xs[1]
    ELSE xs[1] \o sep \o join(sep, Tail(xs))

\* s * n
RECURSIVE repeat(_, _)
repeat(s, n) == IF n <= 0 THEN "" ELSE s \o repeat(s, n - 1)

\* The message of a result record as the text an f-string makes of it.
Text(message) == join(": ", message)

\* ------------------------------------------------------------------- JSON
\* The values of the rows of a query result: a number, a string or null.
JsonInt(n) == [type |-> "int", int |-> n, str |-> ""]
JsonStr(t) == [type |-> "str", int |-> 0, str |-> t]
JsonNull == [type |-> "null", int |-> 0, str |-> ""]

\* str(val)
str(val) ==
    IF val.type = "int" THEN ToString(val.int)
    ELSE IF val.type = "null" THEN "None"
    ELSE val.str

\* A dict: its items in insertion order.
Keys(d) == [i \in DOMAIN d |-> d[i][1]]

HasKey(d, key) == \E i \in DOMAIN d : d[i][1] = key

\* d[key], for a key of d
Item(d, key) == d[CHOOSE i \in DOMAIN d : d[i][1] = key][2]

\* A row of a query result: a dict from column name to value (items: its
\* items) or a list of values (items: its elements).
DictRow(items) == [dict |-> TRUE, items |-> items]
ListRow(values) == [dict |-> FALSE, items |-> values]

\* The arrays that the names of the payloads stand for: "data" is a list
\* of rows.
CountRows(n) == [i \in 1..n |-> DictRow(<<<<"count", JsonInt(41 + i)>>>>)]

RowsOf(data) ==
    IF data = "rows1" THEN CountRows(1)
    ELSE IF data = "rows2" THEN
        <<DictRow(<<<<"city", JsonStr("seoul")>>, <<"age_group", JsonNull>>>>),
          DictRow(<<<<"city", JsonStr("busan")>>>>)>>
    ELSE IF data = "rows10" THEN CountRows(10)
    ELSE IF data = "rows11" THEN CountRows(11)
    ELSE IF data = "rows12" THEN CountRows(12)
    ELSE IF data = "rows_empty" THEN <<DictRow(<<>>), DictRow(<<>>)>>
    ELSE IF data = "rows_list" THEN
        <<ListRow(<<JsonStr("seoul"), JsonInt(3)>>), ListRow(<<JsonStr("busan"), JsonNull>>)>>
    ELSE <<>>

\* "columns" is a list of dicts that name a column by "column_name" or by
\* "name", or not at all.
ColumnsOf(columns) ==
    IF columns = "cols1" THEN << <<<<"column_name", "count">>>> >>
    ELSE IF columns = "cols2" THEN
        << <<<<"name", "city">>, <<"type", "STRING">>>>, <<<<"type", "STRING">>>> >>
    ELSE <<>>

\* ------------------------------------------------------------ tools/query.py

\* What a tool function gives: the text it returns or the exception that
\* leaves it, the manager after it, and the execute POST it had sent.
ToolReturn(tool, text, ex) ==
    [tool |-> tool, text |-> text, raised |-> FALSE, self |-> ex.call.self,
     result |-> ex.call.ret, sent |-> ex.sent, payload |-> ex.payload]

\* list(data[0].keys()) raises AttributeError when the first row is a list.
column_names_raises(columns, data) ==
    columns = <<>> /\ data # <<>> /\ ~data[1].dict

\* col.get("column_name", col.get("name", f"col_{i}")) for the columns, or
\* the keys of the first row.
column_names(columns, data) ==
    IF columns # <<>> THEN
        [i \in DOMAIN columns |->
            IF HasKey(columns[i], "column_name") THEN Item(columns[i], "column_name")
            ELSE IF HasKey(columns[i], "name") THEN Item(columns[i], "name")
            ELSE "col_" \o ToString(i - 1)]
    ELSE IF data # <<>> /\ data[1].dict THEN Keys(data[1].items)
    ELSE <<>>

\* str(val)[:width] if val is not None else "NULL"
cell(val, width) ==
    IF val.type = "null" THEN "NULL"
    ELSE SubSeq(str(val), 1, IF Len(str(val)) < width THEN Len(str(val)) ELSE width)

\* row_values: of a dict row, the cell of row.get(col, "NULL") for each
\* column name; of a list row, the cell of each element.
row_values(row, names, width) ==
    IF row.dict THEN
        [j \in DOMAIN names |->
            cell(IF HasKey(row.items, names[j]) THEN Item(row.items, names[j])
                 ELSE JsonStr("NULL"), width)]
    ELSE [j \in DOMAIN row.items |-> cell(row.items[j], width)]

\* No [:width]
Unlimited == 1000

\* The lines of the rows: " | ".join(row_values) + "\n" for each row.
row_lines(data, names, width) ==
    join("", [i \in DOMAIN data |->
                join(" | ", row_values(data[i], names, width)) \o "\n"])

\* The header line and the line of dashes under it.
header_lines(names) ==
    join(" | ", names) \o "\n" \o repeat("-", Len(join(" | ", names))) \o "\n"

\* repr() of a value, of a row, of a list of rows
repr_value(val) ==
    IF val.type = "int" THEN ToString(val.int)
    ELSE IF val.type = "null" THEN "None"
    ELSE "'" \o val.str \o "'"

repr_row(row) ==
    IF row.dict THEN
        "{" \o join(", ", [i \in DOMAIN row.items |->
                "'" \o row.items[i][1] \o "': " \o repr_value(row.items[i][2])]) \o "}"
    ELSE "[" \o join(", ", [i \in DOMAIN row.items |-> repr_value(row.items[i])]) \o "]"

repr_rows(data) == "[" \o join(", ", [i \in DOMAIN data |-> repr_row(data[i])]) \o "]"

\* data[:n]
first(data, n) == SubSeq(data, 1, IF Len(data) < n THEN Len(data) ELSE n)

\* Lines 24-29: the query with the LIMIT clause added.
limited_query(query, limit) ==
    IF ~In("LIMIT", upper(query)) /\ limit # 0
    THEN rstrip(rstrip(query, Whitespace), ";") \o " LIMIT " \o ToString(limit)
    ELSE query

\* str(e) of the AttributeError of list(data[0].keys())
AttributeError == "'list' object has no attribute 'keys'"

\* Lines 44-104: the text for the result of execute_query.
execute_sql_query_text(query, result) ==
    IF result.status = "error" THEN
        "Error executing query: " \o Text(result.message) \o "\nQuery: " \o query
    ELSE
        LET data == RowsOf(result.data)
            columns == ColumnsOf(result.columns)
            names == column_names(columns, data)
            more == IF Len(data) > 10
                    THEN "\n... and " \o ToString(Len(data) - 10) \o " more rows"
                    ELSE ""
        IN  IF data = <<>> THEN
                "Query executed successfully. No results found.\nQuery: " \o query
            ELSE IF column_names_raises(columns, data) THEN
                "Error executing query: " \o AttributeError \o "\nQuery: " \o query
            ELSE
                "Query: " \o query \o "\n\n"
                \o (IF names # <<>>
                    THEN header_lines(names)
                         \o row_lines(first(data, 10), names, Unlimited) \o more
                    ELSE repr_rows(first(data, 10)) \o more)
                \o "\n\nTotal rows: " \o ToString(Len(data))

\* Lines 42-104 of execute_sql_query, once execute_query has ended as ex
\* for the query q of lines 24-29.
execute_sql_query_return(q, ex) ==
    IF ex.call.exc # "none" THEN
        ToolReturn("execute_sql_query",
            "Error executing query: " \o ex.call.exc \o "\nQuery: " \o q, ex)
    ELSE ToolReturn("execute_sql_query", execute_sql_query_text(q, ex.call.ret), ex)

\* execute_sql_query(query, database, limit)
execute_sql_query(self, now, query, database, limit, env) ==
    LET Run(q) ==
            execute_sql_query_return(q,
                execute_query(self, now, QueryArgs(q, NoDatabaseId, database, limit), env))
    IN  Run(limited_query(query, limit))

\* Lines 265-316 of execute_aggregation_query.
execute_aggregation_query_text(query, result) ==
    IF result.status = "error" THEN
        "Error executing aggregation query: " \o Text(result.message)
        \o "\nQuery: " \o query
    ELSE
        LET data == RowsOf(result.data)
            columns == ColumnsOf(result.columns)
            names == column_names(columns, data)
        IN  IF data = <<>> THEN
                "Aggregation query executed successfully. No results found.\nQuery: "
                \o query
            ELSE IF column_names_raises(columns, data) THEN
                "Error executing aggregation query: " \o AttributeError
                \o "\nQuery: " \o query
            ELSE
                "=== Aggregation Results ===\nQuery: " \o query \o "\n\n"
                \o (IF names # <<>>
                    THEN header_lines(names) \o row_lines(data, names, Unlimited)
                    ELSE repr_rows(data))
                \o "\n**Total result rows:** " \o ToString(Len(data))

\* Lines 259-316 of execute_aggregation_query, once execute_query has
\* ended as ex.
execute_aggregation_query_return(query, ex) ==
    IF ex.call.exc # "none" THEN
        ToolReturn("execute_aggregation_query",
            "Error executing aggregation query: " \o ex.call.exc
            \o "\nQuery: " \o query, ex)
    ELSE ToolReturn("execute_aggregation_query",
            execute_aggregation_query_text(query, ex.call.ret), ex)

\* execute_aggregation_query(query, database)
execute_aggregation_query(self, now, query, database, env) ==
    execute_aggregation_query_return(query,
        execute_query(self, now,
            QueryArgs(query, NoDatabaseId, database, DefaultQueryLimit), env))

\* Lines 165-225 of explore_table_structure: the text for the results of
\* the sample query and of the statistics query.
explore_table_structure_text(table_name, sample_result, stats_result) ==
    LET data == RowsOf(sample_result.data)
        columns == ColumnsOf(sample_result.columns)
        names == IF sample_result.status = "success"
                 THEN column_names(columns, data) ELSE <<>>
        stats_data == RowsOf(stats_result.data)
    IN  IF \/ /\ sample_result.status = "success"
              /\ column_names_raises(columns, data)
           \/ /\ stats_result.status = "success"
              /\ stats_data # <<>>
              /\ ~stats_data[1].dict
        THEN "Error exploring table: " \o AttributeError \o "\nTable: " \o table_name
        ELSE
        "=== Table Structure: " \o table_name \o " ===\n\n"
        \o (IF sample_result.status = "success" THEN
                "**Sample Data (5 rows):**\n"
                \o (IF names # <<>> /\ data # <<>>
                    THEN header_lines(names) \o row_lines(data, names, 50)
                    ELSE "No data found or table is empty.\n")
            ELSE "Error getting sample data: " \o Text(sample_result.message) \o "\n")
        \o "\n**Table Statistics:**\n"
        \o (IF stats_result.status = "success" THEN
                IF stats_data # <<>> THEN
                    join("", [i \in DOMAIN stats_data[1].items |->
                                "- " \o stats_data[1].items[i][1] \o ": "
                                \o str(stats_data[1].items[i][2]) \o "\n"])
                ELSE ""
            ELSE "Could not retrieve statistics\n")
        \o "\n**Columns Found:** " \o ToString(Len(names)) \o "\n"
        \o (IF names # <<>> THEN "Column Names: " \o join(", ", names) \o "\n" ELSE "")

\* explore_table_structure(table_name, database): the sample query, then
\* the statistics query, which is sent again in its short form when the
\* first call raised.  The remote service answers the execute POST of the
\* statistics query with stats_answer, and the other two as env says.
explore_table_structure(self, now, table_name, database, env, stats_answer) ==
    LET Failed(ex) ==
            ToolReturn("explore_table_structure",
                "Error exploring table: " \o ex.call.exc \o "\nTable: " \o table_name, ex)
        Counted(sample, stats) ==
            IF stats.call.exc # "none" THEN Failed(stats)
            ELSE ToolReturn("explore_table_structure",
                    explore_table_structure_text(table_name, sample.call.ret,
                                                 stats.call.ret),
                    stats)
        Fallback(sample, stats) ==
            IF stats.call.exc = "none" THEN Counted(sample, stats)
            ELSE Counted(sample,
                    execute_query(stats.call.self, now,
                        QueryArgs("SELECT COUNT(*) as total_rows FROM " \o table_name,
                                  NoDatabaseId, database, 10), env))
        Sampled(sample) ==
            IF sample.call.exc # "none" THEN Failed(sample)
            ELSE Fallback(sample,
                    execute_query(sample.call.self, now,
                        QueryArgs("\n        SELECT \n            COUNT(*) as total_rows,\n            COUNT(DISTINCT *) as approx_unique_rows\n        FROM "
                                  \o table_name \o "\n        ",
                                  NoDatabaseId, database, 10),
                        [env EXCEPT !.execute = stats_answer]))
    IN  Sampled(execute_query(self, now,
                    QueryArgs("SELECT * FROM " \o table_name \o " LIMIT 5",
                              NoDatabaseId, database, 5), env))

\* ------------------------------------------------------------- tools/auth.py

\* SUPERSET_URL and SUPERSET_USERNAME when the environment sets neither. The
\* texts of the tools are those of the source but for the signs after
\* "accessible", "valid", "Authenticated" and "Not authenticated", which are
\* not ASCII.
base_url == "http://localhost:8088"
username == ""

\* What a tool function that sends no execute POST gives.
ToolText(tool, text, self) ==
    [tool |-> tool, text |-> text, raised |-> FALSE, self |-> self,
     result |-> NoResult, sent |-> FALSE, payload |-> NoOutput.payload]

\* An exception leaves the tool function.
ToolRaise(tool, self) ==
    [tool |-> tool, text |-> "", raised |-> TRUE, self |-> self,
     result |-> NoResult, sent |-> FALSE, payload |-> NoOutput.payload]

\* token[:20] + "..." if token else None, as authenticate() returns it
shown(token) ==
    IF token = None THEN "None"
    ELSE SubSeq(token, 1, IF Len(token) < 20 THEN Len(token) ELSE 20) \o "..."

\* authenticate_superset(): no try block around the call.
authenticate_superset(self, now, lr, cr) ==
    LET result == authenticate(self, now, lr, cr)
    IN  IF result.exc # "none" THEN ToolRaise("authenticate_superset", result.self)
        ELSE IF result.ret.status = "success" THEN
            ToolText("authenticate_superset",
                "Successfully authenticated with Superset!\n- Access Token: "
                \o shown(result.self.access_token)
                \o "\n- CSRF Token: " \o shown(result.self.csrf_token)
                \o "\n- Token expires at: " \o ToString(result.self.token_expiry)
                \o "\n- Base URL: " \o base_url
                \o "\n\nYou can now use Superset API endpoints for creating charts, dashboards, and running queries.",
                result.self)
        ELSE ToolText("authenticate_superset",
                "Authentication failed: " \o Text(result.ret.message), result.self)

\* get_superset_auth_status()
get_superset_auth_status(self, now) ==
    IF is_authenticated(self, now) THEN
        ToolText("get_superset_auth_status",
            "Superset Authentication Status:\n- Status: Authenticated \n- Base URL: "
            \o base_url \o "\n- Username: " \o username \o "\n- Token expires in: "
            \o (IF self.token_expiry # NoExpiry THEN ToString(self.token_expiry - now)
                ELSE "0")
            \o " minutes\n- Token expiry: "
            \o (IF self.token_expiry # NoExpiry THEN ToString(self.token_expiry)
                ELSE "Unknown"),
            self)
    ELSE
        ToolText("get_superset_auth_status",
            "Superset Authentication Status:\n- Status: Not authenticated \n- Base URL: "
            \o base_url \o "\n- Username: " \o username
            \o "\n- Action required: Run 'authenticate_superset' to establish connection",
            self)

\* test_connection() as one call.
test_connection(self, now, lr, cr, dr) ==
    LET a == test_connection_authenticate(self, now, lr, cr)
    IN  IF a.pc = "return" THEN a ELSE test_connection_request(a.self, dr)

\* test_superset_connection(): no try block around the call. The count of
\* the answer is the length of its list, and the "- Details:" line of a
\* failed request, the first 200 characters of the body, is left out.
test_superset_connection(self, now, lr, cr, dr) ==
    LET result == test_connection(self, now, lr, cr, dr)
    IN  IF result.exc # "none" THEN ToolRaise("test_superset_connection", result.self)
        ELSE IF result.ret.status = "success" THEN
            ToolText("test_superset_connection",
                "Superset connection test successful!\n- API is accessible \n- Authentication is valid \n- Found "
                \o ToString(Len(dr.result)) \o " configured databases\n- Base URL: "
                \o base_url,
                result.self)
        ELSE ToolText("test_superset_connection",
                "Superset connection test failed:\n- Error: " \o Text(result.ret.message)
                \o "\n", result.self)

\* ----------------------------------------------------------- tools/schema.py

\* The keys of table_schemas, in the order of the dict, and the first
\* line of the schema of each.
table_schemas ==
    << <<"ecommerce_users", "\necommerce_users\n- user_id: SERIAL PRIMARY KEY\n">>,
       <<"ecommerce_products", "\necommerce_products\n- product_id: SERIAL PRIMARY KEY\n">>,
       <<"ecommerce_events", "\necommerce_events\n- event_id: SERIAL PRIMARY KEY\n">> >>

\* s.strip()
strip(s) == lstrip(rstrip(s, Whitespace), Whitespace)

\* get_database_schema(table_name)
get_database_schema(self, table_name) ==
    IF table_name # "" /\ strip(table_name) # "" THEN
        LET table_name_lower == strip(lower(table_name))
            found == {i \in DOMAIN table_schemas :
                        lower(table_schemas[i][1]) = table_name_lower}
        IN  IF found # {} THEN
                ToolText("get_database_schema",
                    table_schemas[CHOOSE i \in found : \A j \in found : i <= j][2], self)
            ELSE ToolText("get_database_schema",
                    "Table '" \o table_name
                    \o "' not found. Available tables: ecommerce_users, ecommerce_products, ecommerce_events",
                    self)
    ELSE
        ToolText("get_database_schema",
            "E-Commerce Database Schema:\n\n"
            \o join("", [i \in DOMAIN table_schemas |-> table_schemas[i][2] \o "\n"]),
            self)

\* list_available_tables()
list_available_tables(self) ==
    ToolText("list_available_tables",
        "Available tables: ecommerce_users, ecommerce_products, ecommerce_events", self)

\* ------------------------------------------------------------ tools/chart.py

\* A response of the chart, dataset or SQL Lab API to a tool function:
\* the status code, the body as text, and the fields of the body that the
\* tool reads when the body is a JSON object.
ApiResponse(kind, code, json, text, body) ==
    [kind |-> kind, status_code |-> code, json |-> json, text |-> text, body |-> body]

\* The fields "id" and "result" of the answer to POST /api/v1/chart/.
ChartBody(id, has_result, result_id) ==
    [id |-> id, has_result |-> has_result, result_id |-> result_id,
     result |-> <<>>, count |-> 0, data |-> <<>>]

\* The fields "result" and "count" of a list answer.
ListBody(result, count) ==
    [id |-> None, has_result |-> TRUE, result_id |-> None,
     result |-> result, count |-> count, data |-> <<>>]

\* The field "data" of the answer to POST /api/v1/sqllab/execute/.
DataBody(data) ==
    [id |-> None, has_result |-> FALSE, result_id |-> None,
     result |-> <<>>, count |-> 0, data |-> data]

NoBody == ChartBody(None, FALSE, None)

\* str(e) of the exceptions of the requests
ErrorText(response) ==
    IF response.kind # "http" THEN response.kind
    ELSE "Expecting value: line 1 column 1 (char 0)"

NotAuthenticatedText ==
    "Error: Not authenticated with Superset. Please run authenticate_superset first."

\* Lines 45-57: the viz type of a chart type.
viz_type_mapping ==
    << <<"table", "table">>, <<"bar", "echarts_timeseries_bar">>,
       <<"line", "echarts_timeseries_line">>, <<"pie", "pie">>,
       <<"area", "echarts_area">>, <<"scatter", "echarts_scatter">>,
       <<"heatmap", "heatmap">>, <<"boxplot", "box_plot">>,
       <<"big_number", "big_number_total">> >>

viz_type_of(chart_type) ==
    IF HasKey(viz_type_mapping, lower(chart_type))
    THEN Item(viz_type_mapping, lower(chart_type))
    ELSE "table"

\* Line 128: f["column"] and f["value"] of every filter; a filter that
\* lacks one of the keys raises KeyError.
query_filters_raise(filters) ==
    \E i \in DOMAIN filters :
        ~HasKey(filters[i], "column") \/ ~HasKey(filters[i], "value")

\* Lines 158-190 of create_superset_chart.
create_chart_text(chart_name, chart_type, response) ==
    IF response.kind # "http" THEN "Error creating chart: " \o ErrorText(response)
    ELSE IF response.status_code = 201 THEN
        IF ~response.json THEN "Error creating chart: " \o ErrorText(response)
        ELSE
            LET chart_id == IF response.body.has_result /\ response.body.id = None
                            THEN response.body.result_id
                            ELSE response.body.id
            IN  "Chart created successfully!\n- Chart Name: " \o chart_name
                \o "\n- Chart Type: " \o chart_type
                \o "\n- Chart ID: " \o chart_id
                \o "\n- View URL: " \o base_url \o "/explore/?slice_id=" \o chart_id
                \o "\n- Edit URL: " \o base_url \o "/chart/edit/" \o chart_id
    ELSE "Failed to create chart: " \o ToString(response.status_code)
         \o " - " \o response.text

\* create_superset_chart(datasource_id, chart_type, chart_name, metric,
\* dimensions, filters): filters is a list of dicts, <<>> for None.
create_superset_chart(self, now, chart_type, chart_name, filters, response) ==
    IF ~is_authenticated(self, now) THEN
        ToolText("create_superset_chart", NotAuthenticatedText, self)
    ELSE IF query_filters_raise(filters) THEN
        ToolRaise("create_superset_chart", self)
    ELSE
        ToolText("create_superset_chart",
            create_chart_text(
                IF chart_name = "" THEN "Chart_" \o chart_type \o "_" \o ToString(now)
                ELSE chart_name,
                chart_type, response),
            self)

\* A dataset of the list: ds['id'], ds['table_name'] and
\* ds.get('database', {}).get('database_name', 'Unknown').
dataset_line(ds) ==
    "- ID: " \o ToString(ds.id) \o ", Name: " \o ds.table_name
    \o ", Database: " \o ds.database_name \o "\n"

\* get_available_datasets()
get_available_datasets(self, now, response) ==
    ToolText("get_available_datasets",
        IF ~is_authenticated(self, now) THEN NotAuthenticatedText
        ELSE IF response.kind # "http" THEN
            "Error fetching datasets: " \o ErrorText(response)
        ELSE IF response.status_code = 200 THEN
            IF ~response.json THEN "Error fetching datasets: " \o ErrorText(response)
            ELSE IF response.body.result = <<>> THEN "No datasets found in Superset."
            ELSE "Available Datasets:\n"
                 \o join("", [i \in DOMAIN response.body.result |->
                                dataset_line(response.body.result[i])])
        ELSE "Failed to fetch datasets: " \o ToString(response.status_code)
             \o " - " \o response.text,
        self)

\* get_chart_types()
get_chart_types(self) ==
    ToolText("get_chart_types",
        "Available Chart Types:\n- table: Basic table view of data\n- bar: Bar chart for categorical comparisons\n\nUsage Tips:\n- Use 'bar' for comparing categories\n",
        self)

\* Lines 290-301: the chart type chosen for the query.
auto_chart_type(query, chart_type) ==
    LET query_lower == lower(query)
    IN  IF chart_type # "auto" THEN chart_type
        ELSE IF In("count(*)", query_lower) /\ ~In("group by", query_lower) THEN "big_number"
        ELSE IF In("group by", query_lower) /\ In("count", query_lower) THEN "bar"
        ELSE IF In("date", query_lower) \/ In("time", query_lower) THEN "line"
        ELSE IF In("sum", query_lower) /\ In("group by", query_lower) THEN "pie"
        ELSE "table"

\* Lines 307-320: the metric of the query.
query_metric(query) ==
    LET query_lower == lower(query)
    IN  IF In("count(*)", query_lower) \/ In("count(", query_lower) THEN "count"
        ELSE IF In("sum(", query_lower) THEN "sum"
        ELSE IF In("avg(", query_lower) THEN "avg"
        ELSE IF In("max(", query_lower) THEN "max"
        ELSE IF In("min(", query_lower) THEN "min"
        ELSE "count"

\* Lines 321-324: the dimensions of a query with one GROUP BY column and
\* nothing after it, joined for the text; "None" without GROUP BY.
query_dimensions(query) ==
    LET After(q, i) == strip(SubSeq(q, i + 8, Len(q)))
        Found(q) ==
            IF In("group by", q)
            THEN After(q, CHOOSE i \in 1..(Len(q) - 7) :
                            /\ SubSeq(q, i, i + 7) = "group by"
                            /\ \A j \in 1..(i - 1) : SubSeq(q, j, j + 7) # "group by")
            ELSE "None"
    IN  Found(lower(query))

\* create_chart_from_query(query, chart_type, chart_name, database_id).
\* The call of create_superset_chart at line 352 is a call of the tool
\* object that the decorator made of the function: callable says whether
\* the object runs the function with these arguments or raises TypeError.
create_chart_from_query(self, now, query, chart_type, chart_name, r, callable, cr) ==
    LET selected == auto_chart_type(query, chart_type)
        chart_result == create_superset_chart(self, now, selected, chart_name, <<>>, cr)
    IN  ToolText("create_chart_from_query",
            IF ~is_authenticated(self, now) THEN NotAuthenticatedText
            ELSE IF r.kind # "http" THEN "Error: " \o ErrorText(r)
            ELSE IF r.status_code # 200 THEN
                "Query execution failed: " \o ToString(r.status_code) \o " - " \o r.text
            ELSE IF ~r.json THEN "Error: " \o ErrorText(r)
            ELSE IF ~callable THEN
                "Error: BaseTool.__call__() got an unexpected keyword argument"
            ELSE
                "Query executed and visualization created!\n\nQuery Statistics:\n- Rows returned: "
                \o ToString(Len(r.body.data))
                \o "\n- Selected chart type: " \o selected
                \o "\n- Metric: " \o query_metric(query)
                \o "\n- Dimensions: " \o query_dimensions(query)
                \o "\n\n" \o chart_result.text,
            self)

\* A chart of the list, every field read with get().
chart_lines(chart) ==
    "- Name: " \o chart.slice_name \o "\n  ID: " \o ToString(chart.id)
    \o "\n  Type: " \o chart.viz_type
    \o "\n  URL: " \o base_url \o "/explore/?slice_id=" \o ToString(chart.id)
    \o "\n  Last Modified: " \o chart.changed_on \o "\n\n"

\* list_existing_charts(page_size)
list_existing_charts(self, now, response) ==
    ToolText("list_existing_charts",
        IF ~is_authenticated(self, now) THEN NotAuthenticatedText
        ELSE IF response.kind # "http" THEN
            "Error fetching charts: " \o ErrorText(response)
        ELSE IF response.status_code = 200 THEN
            IF ~response.json THEN "Error fetching charts: " \o ErrorText(response)
            ELSE IF response.body.result = <<>> THEN "No charts found in Superset."
            ELSE "Existing Charts (showing " \o ToString(Len(response.body.result))
                 \o " of " \o ToString(response.body.count) \o "):\n\n"
                 \o join("", [i \in DOMAIN response.body.result |->
                                chart_lines(response.body.result[i])])
        ELSE "Failed to fetch charts: " \o ToString(response.status_code)
             \o " - " \o response.text,
        self)

\* ------------------------------------------------------- the tool catalog

\* The arguments the agent gives to the tools.
Queries ==
    {"SELECT 1",
     "SELECT COUNT(*) FROM t",
     "select city from t limit 5",
     "SELECT city FROM t LiMiT 5;",
     "SELECT city FROM t; ",
     "SELECT credit_limit FROM accounts"}

SqlQueryArgs ==
    {<<q, DefaultQueryLimit>> : q \in Queries}
    \cup {<<"SELECT 1", 5>>, <<"SELECT 1", 0>>}

AggregationQueries == {"SELECT city, COUNT(*) FROM t GROUP BY city", "SELECT 1"}

TableNameArgs == {"", "ecommerce_users", " Ecommerce_Events ", "orders"}

ChartTypeArgs == {"table", "Bar", "radar"}
ChartNameArgs == {"", "sales"}
FilterArgs ==
    {<<>>,
     << <<<<"column", "city">>, <<"operator", "=">>, <<"value", "seoul">>>> >>,
     << <<<<"col", "city">>, <<"value", "seoul">>>> >>}

\* The token of a login: never the one the client holds.
Fresh(held) == IF held = "at1" THEN "at2" ELSE "at1"

LoginWith(at) ==
    <<LoginResponse("http", 200, TRUE, at, RefreshTokenOf(at)),
      CsrfResponse("http", 200, TRUE, CsrfTokenOf(at))>>

LoginRefused == <<LoginResponse("http", 403, FALSE, None, None), NoCsrf>>

OneDatabase == DatabaseResponse("http", 200, TRUE, Databases(<<"PostgreSQL">>))

Answer(code, status, data, columns) ==
    QueryResponse("http", code, TRUE, Payload(status, data, columns, "q1", None, None))

\* The behaviours of the remote service during one call of a query tool
\* by a manager self at time now.
Environments(self, now) ==
    LET login == LoginWith(Fresh(self.access_token))
        relogin == LoginWith(Fresh(IF is_authenticated(self, now) THEN self.access_token
                                   ELSE Fresh(self.access_token)))
        Env(execute) == Environment(login, relogin, OneDatabase, execute,
                                    NoResponse, 0, NoResponse)
        unauthorized == QueryResponse("http", 401, FALSE, NoPayload)
    IN  {Env(Answer(200, "success", d[1], d[2])) :
            d \in {<<"rows1", "cols1">>, <<"rows2", None>>, <<"rows2", "cols2">>,
                   <<"rows10", "cols1">>, <<"rows11", "cols1">>, <<"rows12", None>>,
                   <<"rows_empty", None>>, <<"rows_list", "cols2">>,
                   <<"rows_list", None>>, <<EmptyList, EmptyList>>, <<None, None>>}}
        \cup {Env(QueryResponse("http", 200, TRUE,
                    Payload("error", None, None, None, "err1", None))),
              Env(QueryResponse("ConnectionError", 0, FALSE, NoPayload)),
              Env(QueryResponse("http", 500, FALSE, NoPayload)),
              Environment(LoginRefused, LoginRefused, OneDatabase,
                          unauthorized, NoResponse, 0, NoResponse),
              Environment(login, relogin,
                          DatabaseResponse("http", 200, TRUE, <<>>),
                          Answer(200, "success", "rows1", "cols1"), NoResponse, 0,
                          NoResponse),
              Environment(login, relogin, OneDatabase, unauthorized,
                          Answer(200, "success", "rows1", "cols1"), 0, NoResponse),
              Environment(login, relogin, OneDatabase, unauthorized,
                          unauthorized, 0, NoResponse),
              Environment(login, relogin, OneDatabase,
                          Answer(202, "pending", None, None), NoResponse, 2,
                          Answer(200, "success", "rows11", "cols1")),
              Environment(login, relogin, OneDatabase,
                          Answer(202, "pending", None, None), NoResponse,
                          max_attempts, Running)}

\* The logins a tool that authenticates can be given.
ToolLogins(self) ==
    {LoginWith(Fresh(self.access_token)), LoginRefused,
     <<LoginResponse("ConnectionError", 0, FALSE, None, None), NoCsrf>>,
     <<LoginResponse("http", 200, TRUE, Fresh(self.access_token),
                     RefreshTokenOf(Fresh(self.access_token))),
       CsrfResponse("http", 500, FALSE, None)>>}

ToolDatabaseResponses ==
    {OneDatabase, DatabaseResponse("http", 500, FALSE, <<>>),
     DatabaseResponse("ConnectionError", 0, FALSE, <<>>)}

CreateChartResponses ==
    {ApiResponse("ConnectionError", 0, FALSE, "", NoBody),
     ApiResponse("http", 201, TRUE, "{id: 7}", ChartBody("7", FALSE, None)),
     ApiResponse("http", 201, TRUE, "{result: {id: 8}}", ChartBody(None, TRUE, "8")),
     ApiResponse("http", 201, FALSE, "<html>", NoBody),
     ApiResponse("http", 400, TRUE, "{message: bad request}", NoBody),
     ApiResponse("http", 401, FALSE, "Unauthorized", NoBody)}

DatasetResponses ==
    {ApiResponse("ConnectionError", 0, FALSE, "", NoBody),
     ApiResponse("http", 200, TRUE, "{result: []}", ListBody(<<>>, 0)),
     ApiResponse("http", 200, TRUE, "{result: [...]}",
        ListBody(<<[id |-> 1, table_name |-> "ecommerce_users",
                    database_name |-> "PostgreSQL"],
                   [id |-> 2, table_name |-> "ecommerce_events",
                    database_name |-> "Unknown"]>>, 2)),
     ApiResponse("http", 200, FALSE, "<html>", NoBody),
     ApiResponse("http", 500, FALSE, "Internal Server Error", NoBody)}

ChartListResponses ==
    {ApiResponse("ConnectionError", 0, FALSE, "", NoBody),
     ApiResponse("http", 200, TRUE, "{result: []}", ListBody(<<>>, 0)),
     ApiResponse("http", 200, TRUE, "{result: [...]}",
        ListBody(<<[slice_name |-> "sales", id |-> 7, viz_type |-> "table",
                    changed_on |-> "2 days ago"],
                   [slice_name |-> "Unnamed", id |-> 8, viz_type |-> "Unknown",
                    changed_on |-> "Unknown"]>>, 5)),
     ApiResponse("http", 200, FALSE, "<html>", NoBody),
     ApiResponse("http", 403, FALSE, "Forbidden", NoBody)}

SqlLabResponses ==
    {ApiResponse("ConnectionError", 0, FALSE, "", NoBody),
     ApiResponse("http", 200, TRUE, "{data: [...]}", DataBody(CountRows(2))),
     ApiResponse("http", 200, FALSE, "<html>", NoBody),
     ApiResponse("http", 400, TRUE, "{message: syntax error}", NoBody)}

\* The agent executor calls one tool at a time: a tool function runs when
\* the executor holds no return value; the manager is as the tool leaves
\* it, and output is what the tool returned.
Tool(query, limit, out) ==
    /\ output = NoOutput
    /\ SetManager(out.self)
    /\ output' = [tool |-> out.tool, query |-> query, limit |-> limit,
                  text |-> out.text, raised |-> out.raised, result |-> out.result,
                  sent |-> out.sent, payload |-> out.payload]
    /\ UNCHANGED <<clock, progress, last, raised, agent, reply, concurrent>>

\* The agent executor takes the return value of the tool as its observation.
Observe ==
    /\ output # NoOutput
    /\ output' = NoOutput
    /\ UNCHANGED <<manager, clock, progress, last, raised, agent, reply, concurrent>>

ExecuteSqlQueryOn(query, limit, env) ==
    Tool(query, limit, execute_sql_query(Self, clock, query, "PostgreSQL", limit, env))

ExecuteSqlQuery ==
    \E a \in SqlQueryArgs : \E env \in Environments(Self, clock) :
        ExecuteSqlQueryOn(a[1], a[2], env)

\* What the remote service can answer to the statistics query of
\* explore_table_structure: what it answers to the sample query, a result,
\* or the error of an engine that does not know COUNT(DISTINCT *).
StatisticsAnswers(env) ==
    {env.execute,
     Answer(200, "success", "rows1", "cols1"),
     QueryResponse("http", 200, TRUE,
        Payload("error", None, None, None, "syntax error at or near \"*\"", None))}

ExploreTableStructureOn(env, stats) ==
    Tool("t", 0, explore_table_structure(Self, clock, "t", "PostgreSQL", env, stats))

ExploreTableStructure ==
    \E env \in Environments(Self, clock) :
        \E stats \in StatisticsAnswers(env) : ExploreTableStructureOn(env, stats)

ExecuteAggregationQueryOn(query, env) ==
    Tool(query, 0, execute_aggregation_query(Self, clock, query, "PostgreSQL", env))

ExecuteAggregationQuery ==
    \E query \in AggregationQueries : \E env \in Environments(Self, clock) :
        ExecuteAggregationQueryOn(query, env)

GetDatabaseSchemaOn(table_name) == Tool(table_name, 0, get_database_schema(Self, table_name))

GetDatabaseSchema == \E table_name \in TableNameArgs : GetDatabaseSchemaOn(table_name)

ListAvailableTables == Tool("", 0, list_available_tables(Self))

AuthenticateSupersetOn(x) == Tool("", 0, authenticate_superset(Self, clock, x[1], x[2]))

AuthenticateSuperset == \E x \in ToolLogins(Self) : AuthenticateSupersetOn(x)

GetSupersetAuthStatus == Tool("", 0, get_superset_auth_status(Self, clock))

TestSupersetConnectionOn(x, dr) ==
    Tool("", 0, test_superset_connection(Self, clock, x[1], x[2], dr))

TestSupersetConnection ==
    \E x \in ToolLogins(Self) : \E dr \in ToolDatabaseResponses :
        TestSupersetConnectionOn(x, dr)

CreateSupersetChartOn(chart_type, chart_name, filters, r) ==
    Tool(chart_type, 0, create_superset_chart(Self, clock, chart_type, chart_name, filters, r))

CreateSupersetChart ==
    \E chart_type \in ChartTypeArgs : \E chart_name \in ChartNameArgs :
        \E filters \in FilterArgs : \E r \in CreateChartResponses :
            CreateSupersetChartOn(chart_type, chart_name, filters, r)

GetAvailableDatasetsOn(r) == Tool("", 0, get_available_datasets(Self, clock, r))

GetAvailableDatasets == \E r \in DatasetResponses : GetAvailableDatasetsOn(r)

GetChartTypes == Tool("", 0, get_chart_types(Self))

CreateChartFromQueryOn(query, r, callable, cr) ==
    Tool(query, 0, create_chart_from_query(Self, clock, query, "auto", "", r, callable, cr))

CreateChartFromQuery ==
    \E query \in AggregationQueries : \E r \in SqlLabResponses :
        \E callable \in BOOLEAN : \E cr \in CreateChartResponses :
            CreateChartFromQueryOn(query, r, callable, cr)

ListExistingChartsOn(r) == Tool("", 0, list_existing_charts(Self, clock, r))

ListExistingCharts == \E r \in ChartListResponses : ListExistingChartsOn(r)

ToolNext ==
    \/ Tick
    \/ Observe
    \/ ExecuteSqlQuery
    \/ ExploreTableStructure
    \/ ExecuteAggregationQuery
    \/ GetDatabaseSchema
    \/ ListAvailableTables
    \/ AuthenticateSuperset
    \/ GetSupersetAuthStatus
    \/ TestSupersetConnection
    \/ CreateSupersetChart
    \/ GetAvailableDatasets
    \/ GetChartTypes
    \/ CreateChartFromQuery
    \/ ListExistingCharts

ToolSpec == Init /\ [][ToolNext]_vars

\* ------------------------------------------------------------------- app.py

\* The providers _get_llm knows, and the model each gets when none is named.
Providers == {"openai", "bedrock", "anthropic"}

DefaultModel(provider) ==
    IF provider = "openai" THEN "gpt-3.5-turbo"
    ELSE IF provider = "bedrock" THEN "us.anthropic.claude-sonnet-4-20250514-v1:0"
    ELSE "claude-3-sonnet-20240229"

\* What callers send.
ProviderArgs == Providers \cup {"gemini"}
ModelArgs == {None, "m1", "m2"}
Questions == {"How many users signed up?", ""}

\* The construction of the LLM client succeeds or raises with a message.
Constructions == {"none", "Unable to locate credentials"}

\* What AgentExecutor.invoke does: it raises, or returns a dictionary with
\* the key "output".
Invocation(exc, out) == [exc |-> exc, output |-> out]

Invocations ==
    {Invocation(e, "") : e \in {"ThrottlingException", "Read timed out", "Exception", ""}}
    \cup {Invocation("none", o) :
            o \in {"There are 42 users.", "42", "Agent stopped due to iteration limit.", ""}}

\* DataAgent(provider, model): the agent, or the exception of __init__.
DataAgent(provider, model, construction) ==
    IF provider \notin Providers THEN
        [exc |-> "Unsupported provider: " \o provider, agent |-> NoAgent]
    ELSE IF construction # "none" THEN [exc |-> construction, agent |-> NoAgent]
    ELSE [exc |-> "none",
          agent |-> [provider |-> provider,
                     model |-> IF model = None THEN DefaultModel(provider) ELSE model]]

\* DataAgent.run(query): the result of invoke, or its exception raised again.
run(self, query, invocation) ==
    IF invocation.exc # "none" THEN Invocation(invocation.exc, "")
    ELSE Invocation("none", invocation.output)

HTTPException(status_code, detail) ==
    [status_code |-> status_code, detail |-> detail, answer |-> "", status |-> "",
     message |-> ""]

\* A JSON body with "status" and "message".
StatusMessage(status, message) ==
    [status_code |-> 200, detail |-> "", answer |-> "", status |-> status,
     message |-> message]

\* QueryResponse(answer, status)
Answered(answer, status) ==
    [status_code |-> 200, detail |-> "", answer |-> answer, status |-> status,
     message |-> ""]

\* query_agent with the message of the exception left out of the detail.
query_agent_without_message(a, question, invocation) ==
    LET Ran(response) ==
            IF response.exc # "none" THEN HTTPException(500, "Agent error")
            ELSE Answered(response.output, "success")
    IN  IF a = NoAgent THEN HTTPException(500, "Agent not initialized")
        ELSE Ran(run(a, question, invocation))

\* POST /query
query_agent(a, question, invocation) ==
    LET Ran(response) ==
            IF response.exc # "none"
            THEN HTTPException(500, "Agent error: " \o response.exc)
            ELSE Answered(response.output, "success")
    IN  IF a = NoAgent THEN HTTPException(500, "Agent not initialized")
        ELSE Ran(run(a, question, invocation))

\* The app answers a request.
Reply(r) ==
    /\ reply' = r
    /\ UNCHANGED <<manager, clock, progress, last, raised, output, concurrent>>

\* startup_event: before the first request; a failure is printed and the
\* agent stays None.
StartupEventOn(construction) ==
    /\ agent = NoAgent
    /\ reply = NoReply
    /\ agent' = IF DataAgent("bedrock", None, construction).exc = "none"
                THEN DataAgent("bedrock", None, construction).agent
                ELSE agent
    /\ UNCHANGED <<manager, clock, progress, last, raised, output, reply, concurrent>>

StartupEvent == \E construction \in Constructions : StartupEventOn(construction)

\* GET /
Root ==
    /\ Reply(StatusMessage("", "SQL Data Analysis Agent API is running"))
    /\ UNCHANGED agent

\* GET /health
HealthCheck ==
    /\ Reply(IF agent = NoAgent THEN StatusMessage("error", "Agent not initialized")
             ELSE StatusMessage("healthy", "Agent is ready"))
    /\ UNCHANGED agent

QueryAgentOn(question, invocation) ==
    /\ Reply(query_agent(agent, question, invocation))
    /\ UNCHANGED agent

QueryAgent ==
    \E question \in Questions : \E invocation \in Invocations :
        QueryAgentOn(question, invocation)

\* POST /reinitialize
ReinitializeAgentOn(provider, model, construction) ==
    IF DataAgent(provider, model, construction).exc = "none" THEN
        /\ agent' = DataAgent(provider, model, construction).agent
        /\ Reply(StatusMessage("success", "Agent reinitialized with " \o provider))
    ELSE
        /\ Reply(HTTPException(500, "Reinitialization failed: "
                                    \o DataAgent(provider, model, construction).exc))
        /\ UNCHANGED agent

ReinitializeAgent ==
    \E provider \in ProviderArgs : \E model \in ModelArgs :
        \E construction \in Constructions :
            ReinitializeAgentOn(provider, model, construction)

AppNext ==
    \/ StartupEvent
    \/ Root
    \/ HealthCheck
    \/ QueryAgent
    \/ ReinitializeAgent

AppSpec == Init /\ [][AppNext]_vars

\* ------------------------------------------- get_instance and its callers

\* The threads of the process call the class methods with no lock; a
\* thread can be taken off the processor between any two lines.  The
\* objects constructed are numbered in the order of their construction;
\* instances[i] is the access_token of the i-th.

\* What a step of a class method leaves alone.
callers == <<manager, clock, progress, last, raised, tools, thread>>

\* Line 28: if cls._instance is None
GetInstanceTest(t) ==
    /\ caller[t].pc \in {"idle", "test"}
    /\ caller' = [caller EXCEPT ![t].pc = IF instance = 0 THEN "construct"
                                          ELSE "return"]
    /\ UNCHANGED <<instance, instances, resets, callers>>

\* Line 29, right-hand side: cls(), which runs __init__.
GetInstanceConstruct(t) ==
    /\ caller[t].pc = "construct"
    /\ Len(instances) < MaxInstances
    /\ instances' = Append(instances, NewManager.access_token)
    /\ caller' = [caller EXCEPT ![t].pc = "assign", ![t].made = Len(instances) + 1]
    /\ UNCHANGED <<instance, resets, callers>>

\* Line 29, the assignment to cls._instance.
GetInstanceAssign(t) ==
    /\ caller[t].pc = "assign"
    /\ instance' = caller[t].made
    /\ caller' = [caller EXCEPT ![t].pc = "return", ![t].made = 0]
    /\ UNCHANGED <<instances, resets, callers>>

\* Line 30: return cls._instance
GetInstanceReturn(t) ==
    /\ caller[t].pc = "return"
    /\ caller' = [caller EXCEPT ![t].pc = "idle", ![t].got = instance]
    /\ UNCHANGED <<instance, instances, resets, callers>>

\* reset_instance, line 36; its line 37 is a get_instance() call, which
\* the thread goes on with.
ResetInstance(t) ==
    /\ caller[t].pc = "idle"
    /\ resets < MaxResets
    /\ instance' = 0
    /\ resets' = resets + 1
    /\ caller' = [caller EXCEPT ![t].pc = "test"]
    /\ UNCHANGED <<instances, callers>>

\* A thread authenticates the manager get_instance() gave it: the login
\* succeeds and the token is stored in that object.
AuthenticateInstance(t) ==
    /\ caller[t].pc = "idle"
    /\ caller[t].got # 0
    /\ instances[caller[t].got] = None
    /\ instances' = [instances EXCEPT ![caller[t].got] = "at1"]
    /\ UNCHANGED <<instance, resets, caller, callers>>

SingletonNext ==
    \/ \E t \in Threads : GetInstanceTest(t)
    \/ \E t \in Threads : GetInstanceConstruct(t)
    \/ \E t \in Threads : GetInstanceAssign(t)
    \/ \E t \in Threads : GetInstanceReturn(t)
    \/ \E t \in Threads : ResetInstance(t)
    \/ \E t \in Threads : AuthenticateInstance(t)

SingletonSpec == Init /\ [][SingletonNext]_vars

\* ------------------------------- execute_query calls of several threads

\* The threads call execute_query(sql) of the one manager with no lock.  A
\* thread is taken off the processor while it waits for a response: its
\* steps are the lines between two responses.

\* What a step of a thread's execute_query leaves alone.
racers == <<clock, progress, last, raised, tools, cls>>

\* The login endpoint accepts the login with a token it has not given
\* last, or refuses it.
RaceExchanges == {LoginWith(Fresh(access_token)), LoginRefused}

\* The responses of the authenticate() that ensure_authenticated makes.
RaceEnsureExchanges ==
    IF is_authenticated(Self, clock) THEN {NoExchange} ELSE RaceExchanges

\* The service answers 401 to an execute request without a bearer token;
\* to one with a token it answers with the rows, or 401 when it no longer
\* accepts the token.
RaceResponses(req) ==
    {QueryResponse("http", 401, FALSE, NoPayload)}
    \cup (IF req.headers.Authorization = <<>> THEN {}
          ELSE {Answer(200, "success", "rows1", "cols1")})

\* Another thread is inside force_reauthenticate(): the token fields are
\* cleared and its login has not completed.
ReauthenticationInProgress(t) ==
    /\ access_token = None
    /\ \E u \in Threads \ {t} : thread[u].pc = "reauth"

\* A step of the call of thread t, whose locals are th after it: the
\* manager is as the step leaves it, and the call returns or goes on at
\* step.pc.
ThreadStep(t, step, th) ==
    /\ SetManager(step.self)
    /\ thread' = [thread EXCEPT ![t] =
                    IF step.pc = "return"
                    THEN [NoThread EXCEPT !.ret = step.ret.status]
                    ELSE [th EXCEPT !.pc = step.pc]]
    /\ UNCHANGED racers

\* Lines 239-242: the thread calls execute_query("SELECT 1").
ThreadExecuteQueryOn(t, x) ==
    /\ thread[t].pc = "idle"
    /\ ThreadStep(t, execute_query_authenticate(Self, clock, x[1], x[2]),
                  [NoThread EXCEPT !.entry = is_authenticated(Self, clock)])

ThreadExecuteQuery ==
    \E t \in Threads : \E x \in RaceEnsureExchanges : ThreadExecuteQueryOn(t, x)

\* Lines 245-246 and 185-194: get_database_id ensures the authentication
\* and sends its request.
ThreadResolveOn(t, x) ==
    /\ thread[t].pc = "resolve"
    /\ LET g == get_database_id_authenticate(Self, clock, x[1], x[2])
       IN  ThreadStep(t, IF g.pc = "return" /\ g.exc = "none"
                         THEN execute_query_resolved(g.self, "PostgreSQL", g.id)
                         ELSE g,
                      thread[t])

ThreadResolve ==
    \E t \in Threads : \E x \in RaceEnsureExchanges : ThreadResolveOn(t, x)

\* Lines 196-224 and 247-248: the database list arrives.
ThreadDatabaseListOn(t, dr) ==
    /\ thread[t].pc = "databases"
    /\ LET g == get_database_id_request(Self, "PostgreSQL", dr)
       IN  ThreadStep(t, IF g.exc = "none"
                         THEN execute_query_resolved(g.self, "PostgreSQL", g.id)
                         ELSE g,
                      [thread[t] EXCEPT !.database_id = g.id])

ThreadDatabaseList == \E t \in Threads : ThreadDatabaseListOn(t, OneDatabase)

\* Lines 251-282: the thread builds the execute request from the fields of
\* the manager as they are now, and sends it.
ThreadPost(t) ==
    /\ thread[t].pc = "post"
    /\ thread' = [thread EXCEPT
            ![t].pc = "sent",
            ![t].request = execute_request(Self,
                execute_payload("SELECT 1", thread[t].database_id, NoQueryLimit)),
            ![t].cleared = ReauthenticationInProgress(t)]
    /\ UNCHANGED <<manager, racers>>

\* Lines 284-376: the response of the execute POST arrives.  On a 401 the
\* thread enters force_reauthenticate(): it runs lines 135-140 and sends
\* the login request of authenticate().
ThreadResponseOn(t, er) ==
    /\ thread[t].pc = "sent"
    /\ IF er.status_code = 401 THEN
            /\ SetManager(force_reauthenticate_clear(Self))
            /\ thread' = [thread EXCEPT ![t].pc = "reauth",
                                        ![t].reauths = thread[t].reauths + 1]
            /\ UNCHANGED racers
       ELSE ThreadStep(t, execute_query_except(
                            execute_query_response(Self, clock, er, NoLogin, NoCsrf)),
                       thread[t])

ThreadResponse ==
    \E t \in Threads : \E er \in RaceResponses(thread[t].request) :
        ThreadResponseOn(t, er)

\* Lines 71-120 and 349-372: the responses of the login of
\* force_reauthenticate() arrive, and execute_query goes on to its second
\* POST or returns.
ThreadReauthenticateOn(t, x) ==
    /\ thread[t].pc = "reauth"
    /\ LET reauth_result == authenticate(Self, clock, x[1], x[2])
       IN  ThreadStep(t, IF reauth_result.ret.status = "success"
                         THEN Goto(reauth_result.self, "retry")
                         ELSE Returned(reauth_result.self, Result("error",
                                <<"Reauthentication failed">>
                                \o reauth_result.ret.message)),
                      thread[t])

ThreadReauthenticate ==
    \E t \in Threads : \E x \in RaceExchanges : ThreadReauthenticateOn(t, x)

\* Lines 353-357: the thread sends the request again, with the headers
\* the manager gives now.
ThreadRetry(t) ==
    /\ thread[t].pc = "retry"
    /\ thread' = [thread EXCEPT
            ![t].pc = "resent",
            ![t].request = retry_request(Self, thread[t].request),
            ![t].cleared = ReauthenticationInProgress(t)]
    /\ UNCHANGED <<manager, racers>>

\* Lines 358-370: the response of the second POST arrives.
ThreadRetryResponseOn(t, rr) ==
    /\ thread[t].pc = "resent"
    /\ ThreadStep(t, execute_query_except(execute_query_retry(Self, rr)), thread[t])

ThreadRetryResponse ==
    \E t \in Threads : \E rr \in RaceResponses(thread[t].request) :
        ThreadRetryResponseOn(t, rr)

RaceNext ==
    \/ ThreadExecuteQuery
    \/ ThreadResolve
    \/ ThreadDatabaseList
    \/ \E t \in Threads : ThreadPost(t)
    \/ ThreadResponse
    \/ ThreadReauthenticate
    \/ \E t \in Threads : ThreadRetry(t)
    \/ ThreadRetryResponse

RaceSpec == Init /\ [][RaceNext]_vars

\* ------------------------------------------------------------------ claims

\* C1: is_authenticated() is false right after construction, true right
\* after every authenticate() that returns status "success", and false
\* again whenever the clock is at or past the expiry that authenticate()
\* recorded and no other call has run since.
C1_AuthenticatedUntilExpiry ==
    /\ [](last.op = "__init__" => ~is_authenticated(Self, clock))
    /\ [][\A x \in AuthExchanges(access_token) :
            (AuthenticateOn(x) /\ last'.ret.status = "success")
                => is_authenticated(Self', clock')]_vars
    /\ []((last.op = "authenticate" /\ last.ret.status = "success"
            /\ clock >= token_expiry) => ~is_authenticated(Self, clock))

\* Witness of C1's last part: an authenticate() returned "success" with a
\* token, and the clock has reached the expiry it recorded.
C1_Expired ==
    /\ last.op = "authenticate"
    /\ last.ret.status = "success"
    /\ access_token \in AccessTokens
    /\ clock >= token_expiry
    /\ ~is_authenticated(Self, clock)

\* C2: when the first execute POST got 401 and force_reauthenticate()
\* succeeded (the call sent a second POST), a retried POST answered with
\* status "success" makes execute_query return status "success" with the
\* data and columns of that answer, and a retried POST answered 401 makes
\* it return status "error" with a message that mentions reauthentication.
C2_RetryAfterReauthentication ==
    (pc = "idle" /\ last.op = "execute_query" /\ posts = 2) =>
        LET rr == last.response
        IN  /\ reauths = 1
            /\ (/\ rr.kind = "http"
                /\ rr.status_code \in {200, 202}
                /\ rr.json
                /\ rr.payload.status = "success") =>
                    /\ last.ret.status = "success"
                    /\ last.ret.data = (IF rr.payload.data = None THEN EmptyList
                                        ELSE rr.payload.data)
                    /\ last.ret.columns = (IF rr.payload.columns = None THEN EmptyList
                                           ELSE rr.payload.columns)
            /\ (rr.kind = "http" /\ rr.status_code = 401) =>
                    /\ last.ret.status = "error"
                    /\ "Query failed after reauthentication" \in Range(last.ret.message)

C2_RetrySucceeded ==
    /\ pc = "idle"
    /\ last.op = "execute_query"
    /\ posts = 2
    /\ reauths = 1
    /\ last.response.status_code = 202
    /\ last.response.payload.status = "success"
    /\ last.response.payload.data = "rows1"
    /\ last.ret.status = "success"
    /\ last.ret.data = "rows1"

\* C3: one execute_query call makes at most one force_reauthenticate() and
\* sends at most two execute POSTs; after a failed reauthentication, and
\* after a retried POST that failed (a 401, any other status but 200 and
\* 202, an exception), it returns status "error"; it does not go back to
\* the request or on to the poll loop.
C3_OneRetryCycle ==
    /\ posts <= 2
    /\ reauths <= 1
    /\ (pc = "retry" => posts = 1 /\ reauths = 1)
    /\ (pc = "poll" => posts = 1 /\ reauths = 0)
    /\ (pc = "idle" /\ last.op = "execute_query" /\ reauths = 1 /\ posts = 1) =>
            /\ last.ret.status = "error"
            /\ "Reauthentication failed" \in Range(last.ret.message)
    /\ (/\ pc = "idle" /\ last.op = "execute_query" /\ posts = 2
        /\ (last.response.kind # "http" \/ last.response.status_code \notin {200, 202})) =>
            last.ret.status = "error"

C3_SecondUnauthorized ==
    /\ pc = "idle"
    /\ last.op = "execute_query"
    /\ posts = 2
    /\ reauths = 1
    /\ last.response.status_code = 401
    /\ last.ret.status = "error"

\* C4: after force_reauthenticate() returns, either is_authenticated() is
\* true and access_token is another value than before the call, or
\* access_token, csrf_token, refresh_token and token_expiry are all unset.
C4_ForceReauthenticateReplacesTokens ==
    [][\A x \in AuthExchanges(access_token) :
        ForceReauthenticateOn(x) =>
            \/ /\ is_authenticated(Self', clock')
               /\ access_token' # access_token
            \/ /\ access_token' = None
               /\ csrf_token' = None
               /\ refresh_token' = None
               /\ token_expiry' = NoExpiry]_vars

\* C5: in the poll loop, a results response with status "success" on poll
\* k makes execute_query return status "success" with the data and
\* columns of that response, after exactly k results requests; results
\* requests are sent in the poll loop only, so none follows it.
C5_PollUntilSuccess ==
    /\ [](pc = "poll" => polls = call.attempt /\ polls < max_attempts)
    /\ [][\A sr \in ResultsResponses :
            (/\ ExecuteQueryPollOn(sr)
             /\ sr.kind = "http" /\ sr.status_code = 200 /\ sr.json
             /\ sr.payload.status = "success") =>
                /\ pc' = "idle"
                /\ last'.ret.status = "success"
                /\ last'.ret.data = (IF sr.payload.data = None THEN EmptyList
                                     ELSE sr.payload.data)
                /\ last'.ret.columns = (IF sr.payload.columns = None THEN EmptyList
                                        ELSE sr.payload.columns)
                /\ polls' = call.attempt + 1]_vars
    /\ [][polls' # polls => (polls' = 0 \/ (pc = "poll" /\ polls' = polls + 1))]_vars

C5_SuccessOnThirdPoll ==
    /\ pc = "idle"
    /\ last.op = "execute_query"
    /\ polls = 3
    /\ last.response.payload.status = "success"
    /\ last.response.payload.data = "rows2"
    /\ last.ret.status = "success"
    /\ last.ret.data = "rows2"

\* C6: the poll loop sends at most max_attempts results requests; a
\* results response with status "error" makes execute_query return status
\* "error" at once, with the error message the response reports first
\* ("error", else the first of "errors"); and execute_query returns the
\* "Query timeout" error exactly when max_attempts results requests were
\* answered and the last answer, like the ones before it, had neither
\* status "success" nor status "error".
C6_PollLoopBounded ==
    /\ [](polls <= max_attempts)
    /\ [](pc = "poll" => call.attempt < max_attempts)
    /\ [][\A sr \in ResultsResponses :
            (/\ ExecuteQueryPollOn(sr)
             /\ sr.kind = "http" /\ sr.status_code = 200 /\ sr.json
             /\ sr.payload.status = "error") =>
                /\ pc' = "idle"
                /\ last'.ret.status = "error"
                /\ sr.payload.error # None =>
                        last'.ret.message = <<"Query error", sr.payload.error>>
                /\ (sr.payload.error = None /\ sr.payload.errors \notin {None, EmptyList}) =>
                        last'.ret.message = <<"Query error", sr.payload.errors>>]_vars
    /\ []((pc = "idle" /\ last.op = "execute_query") =>
            (last.ret.message = <<"Query timeout">>
                <=> /\ polls = max_attempts
                    /\ last.response.kind = "http"
                    /\ \/ last.response.status_code # 200
                       \/ /\ last.response.json
                          /\ last.response.payload.status \notin {"success", "error"}))

C6_TimedOut ==
    /\ pc = "idle"
    /\ last.op = "execute_query"
    /\ polls = max_attempts
    /\ last.ret.status = "error"
    /\ last.ret.message = <<"Query timeout">>

\* C7: no exception leaves a call of the manager: whatever the remote
\* service does, authenticate() and execute_query() return a result
\* record with status "success" or "error".
C7_NoExceptionEscapes ==
    /\ raised = FALSE
    /\ (pc = "idle" /\ last.op \in {"authenticate", "execute_query"}) =>
            last.ret.status \in {"success", "error"}

C7_ExceptionConverted ==
    /\ pc = "idle"
    /\ last.op = "execute_query"
    /\ last.response.kind = "http"
    /\ last.response.status_code = 200
    /\ ~last.response.json
    /\ last.ret.status = "error"
    /\ ~raised

\* C8: when the login endpoint answers with another status than 200,
\* authenticate() returns status "error" with a message that contains the
\* status code, and is_authenticated() stays false if it was false.
C8_LoginRejected ==
    [][\A x \in AuthExchanges(access_token) :
        (AuthenticateOn(x) /\ x[1].kind = "http" /\ x[1].status_code # 200) =>
            /\ last'.ret.status = "error"
            /\ CodeStr(x[1].status_code) \in Range(last'.ret.message)
            /\ ~is_authenticated(Self, clock) => ~is_authenticated(Self', clock')]_vars

C8_Rejected403 ==
    /\ pc = "idle"
    /\ last.op = "authenticate"
    /\ last.ret.status = "error"
    /\ "403" \in Range(last.ret.message)
    /\ ~is_authenticated(Self, clock)

\* C9: whenever the login step of authenticate() succeeded, authenticate()
\* returns status "success", however the CSRF request fails.
C9_CsrfFailureNotFatal ==
    [][\A x \in AuthExchanges(access_token) :
        (AuthenticateOn(x) /\ LoginOk(x[1])) => last'.ret.status = "success"]_vars

\* C10: get_database_id(name) returns the id of the first entry of the
\* database list whose database_name is name, letter for letter; the id
\* of the first entry when no entry matches and the list is not empty;
\* and None only when the list is empty or was not fetched
\* (authentication failed, the request failed, the body was no JSON).
C10_DatabaseIdLookup ==
    /\ [][\A dr \in DatabaseResponses :
            (DatabaseListOn(dr) /\ call.op = "get_database_id") =>
                LET name == call.database_name
                    dbs == dr.result
                    fetched == dr.kind = "http" /\ dr.status_code = 200 /\ dr.json
                    matches == {i \in DOMAIN dbs : dbs[i].database_name = name}
                IN  /\ pc' = "idle"
                    /\ (fetched /\ matches # {}) =>
                            \E i \in matches :
                                /\ \A j \in matches : i <= j
                                /\ last'.id = dbs[i].id
                    /\ (fetched /\ matches = {} /\ dbs # <<>>) => last'.id = dbs[1].id
                    /\ last'.id = NoDatabaseId => (~fetched \/ dbs = <<>>)]_vars
    /\ [][\A x \in EnsureExchanges :
            (GetDatabaseIdOn(x) /\ pc' = "idle") =>
                /\ last'.id = NoDatabaseId
                /\ ~is_authenticated(Self, clock)
                /\ authenticate(Self, clock, x[1], x[2]).ret.status # "success"]_vars

C10_SecondEntryMatches ==
    /\ pc = "idle"
    /\ last.op = "get_database_id"
    /\ last.id = 2
    /\ Len(last.db.result) = 2
    /\ last.db.result[1].database_name = "postgresql"
    /\ last.db.result[2].database_name = "PostgreSQL"

\* C15: in every reachable state access_token is set only together with
\* an expiry that lies in the future.
C15_TokenOnlyWithFutureExpiry ==
    access_token # None => (token_expiry # NoExpiry /\ token_expiry > clock)

\* C15, amended: whenever access_token is set, token_expiry is set too; a
\* step that stores a new access_token sets the expiry to the time of the
\* login plus TTL, and is_authenticated() is true right after it; the
\* token stays stored when its expiry has passed, and is_authenticated()
\* is false from then on.
C15_TokenWithExpiry ==
    /\ [](access_token # None =>
            (token_expiry # NoExpiry /\ token_expiry <= clock + TTL))
    /\ [][(access_token' # access_token /\ access_token' # None) =>
            /\ token_expiry' = clock' + TTL
            /\ is_authenticated(Self', clock')]_vars
    /\ []((access_token # None /\ clock >= token_expiry) =>
            ~is_authenticated(Self, clock))

C15_ExpiredTokenHeld ==
    /\ pc = "idle"
    /\ access_token \in AccessTokens
    /\ token_expiry # NoExpiry
    /\ clock >= token_expiry
    /\ ~is_authenticated(Self, clock)

\* C16: after an authenticate() that logs in (called by a caller or by
\* refresh_authentication()), access_token and refresh_token are other
\* values than before the call, a csrf_token held before the call is held
\* no more, token_expiry is the time of the login plus TTL, and the
\* session object is a new one.
C16_FullReplacement ==
    [][\A x \in AuthExchanges(access_token) :
        (/\ \/ AuthenticateOn(x)
            \/ ~is_authenticated(Self, clock) /\ RefreshAuthenticationOn(x)
         /\ LoginOk(x[1])
         /\ x[1].access_token \in AccessTokens) =>
            /\ access_token' # access_token
            /\ refresh_token' # refresh_token
            /\ csrf_token # None => csrf_token' # csrf_token
            /\ token_expiry' = clock + TTL
            /\ session' # session]_vars

\* C17: an execute POST answered 200 or 202 with a payload of status
\* "success" that has data makes execute_query return status "success"
\* with the data and columns of the payload, and no results request is
\* sent.
C17_ImmediateSuccess ==
    [][\A er \in ExecuteResponses :
        (/\ ExecuteQueryPostOn(er, NoExchange)
         /\ er.kind = "http" /\ er.status_code \in {200, 202} /\ er.json
         /\ er.payload.status = "success"
         /\ er.payload.data # None) =>
            /\ pc' = "idle"
            /\ last'.ret = QuerySuccess(er.payload)
            /\ polls' = 0]_vars

\* C18: an execute payload or a results payload with status "error" makes
\* execute_query return status "error", with the error message of the
\* payload in the message when the payload has one.
C18_RemoteErrorReported ==
    /\ [][\A er \in ExecuteResponses :
            (/\ ExecuteQueryPostOn(er, NoExchange) \/ ExecuteQueryRetryOn(er)
             /\ er.kind = "http" /\ er.status_code \in {200, 202} /\ er.json
             /\ er.payload.status = "error") =>
                /\ pc' = "idle"
                /\ last'.ret.status = "error"]_vars
    /\ [][\A er \in ExecuteResponses :
            (/\ ExecuteQueryPostOn(er, NoExchange)
             /\ er.kind = "http" /\ er.status_code \in {200, 202} /\ er.json
             /\ er.payload.status = "error"
             /\ ~error_msg_raises(er.payload)
             /\ ~(er.payload.error = None /\ er.payload.errors = None)) =>
                error_msg(er.payload) \in Range(last'.ret.message)]_vars
    /\ [][\A sr \in ResultsResponses :
            (/\ ExecuteQueryPollOn(sr)
             /\ sr.kind = "http" /\ sr.status_code = 200 /\ sr.json
             /\ sr.payload.status = "error") =>
                /\ pc' = "idle"
                /\ last'.ret.status = "error"
                /\ (~error_msg_raises(sr.payload)
                    /\ ~(sr.payload.error = None /\ sr.payload.errors = None)) =>
                        error_msg(sr.payload) \in Range(last'.ret.message)]_vars

\* C19: get_headers() assigns to no field; its result has the JSON
\* Content-Type, a bearer Authorization header if and only if access_token
\* is set, and an X-CSRFToken header if and only if csrf_token is set,
\* whatever the clock and the expiry.
C19_HeadersFromTokens ==
    [][GetHeaders =>
        /\ manager' = manager
        /\ last'.headers = get_headers(Self')
        /\ last'.headers.ContentType = "application/json"
        /\ (last'.headers.Authorization # <<>>) <=> (access_token # None)
        /\ access_token # None =>
                last'.headers.Authorization = <<"Bearer", access_token>>
        /\ (last'.headers.XCSRFToken # None) <=> (csrf_token # None)
        /\ csrf_token # None => last'.headers.XCSRFToken = csrf_token]_vars

C19_HeadersOfExpiredToken ==
    /\ pc = "idle"
    /\ last.op = "get_headers"
    /\ access_token \in AccessTokens
    /\ csrf_token # None
    /\ clock >= token_expiry
    /\ last.headers.Authorization = <<"Bearer", access_token>>
    /\ last.headers.XCSRFToken = csrf_token


\* A character of an SQL identifier.
WordChar(c) == In(c, LowerCase \o UpperCase \o "0123456789_")

\* The places of s where the keyword LIMIT stands as a word of its own,
\* in any case.
LimitKeywords(s) ==
    LET At(t) ==
            {i \in 1..(Len(t) - 4) :
                /\ SubSeq(t, i, i + 4) = "limit"
                /\ i = 1 \/ ~WordChar(Char(t, i - 1))
                /\ i + 4 = Len(t) \/ ~WordChar(Char(t, i + 5))}
    IN  At(lower(s))

EndsWith(s, suffix) ==
    /\ Len(s) >= Len(suffix)
    /\ SubSeq(s, Len(s) - Len(suffix) + 1, Len(s)) = suffix

\* C11: when execute_sql_query sends a query to the remote service, a
\* query that has a LIMIT clause (the keyword in any case) is sent
\* unchanged, and a query that has none is sent with " LIMIT <limit>" at
\* its end and has that one LIMIT clause only.
C11_LimitAppendedOnce ==
    output.tool = "execute_sql_query" /\ output.sent /\ output.limit # 0 =>
        IF LimitKeywords(output.query) # {}
        THEN output.payload.sql = output.query
        ELSE /\ EndsWith(output.payload.sql, " LIMIT " \o ToString(output.limit))
             /\ Cardinality(LimitKeywords(output.payload.sql)) = 1


\* C12: no tool function raises: whatever the arguments and the remote
\* service, what a tool gives is a text.
C12_ToolsNeverRaise == ~output.raised

BeginsWithError(text) == Len(text) >= 5 /\ SubSeq(text, 1, 5) = "Error"

\* The remote service makes a query fail: it refuses the login, knows no
\* database, cannot be reached, or answers the execute POST with status
\* 500 or with an error payload.
FailingEnvironment(env) ==
    \/ env.login = LoginRefused
    \/ env.databases.result = <<>>
    \/ env.execute.kind # "http"
    \/ env.execute.status_code = 500
    \/ env.execute.status_code = 200 /\ env.execute.payload.status = "error"

\* C13: on a failure path of a tool function (the login fails, the
\* client is not authenticated, the remote service cannot be reached or
\* answers with an error status, the query or the chart creation fails)
\* the text the tool returns begins with "Error".
C13_FailureTextBeginsWithError ==
    [][output = NoOutput /\ ~output'.raised =>
        /\ output'.tool = "authenticate_superset" =>
            \A x \in ToolLogins(Self) :
                x[1].status_code # 200 /\ AuthenticateSupersetOn(x)
                => BeginsWithError(output'.text)
        /\ output'.tool = "test_superset_connection" =>
            \A x \in ToolLogins(Self) : \A dr \in ToolDatabaseResponses :
                /\ \/ ~is_authenticated(Self, clock) /\ x[1].status_code # 200
                   \/ dr.status_code # 200
                /\ TestSupersetConnectionOn(x, dr)
                => BeginsWithError(output'.text)
        /\ output'.tool = "execute_sql_query" =>
            \A env \in Environments(Self, clock) :
                FailingEnvironment(env)
                /\ ExecuteSqlQueryOn(output'.query, output'.limit, env)
                => BeginsWithError(output'.text)
        /\ output'.tool = "execute_aggregation_query" =>
            \A env \in Environments(Self, clock) :
                FailingEnvironment(env) /\ ExecuteAggregationQueryOn(output'.query, env)
                => BeginsWithError(output'.text)
        /\ output'.tool = "explore_table_structure" =>
            \A env \in Environments(Self, clock) :
                \A stats \in StatisticsAnswers(env) :
                    FailingEnvironment(env) /\ ExploreTableStructureOn(env, stats)
                    => BeginsWithError(output'.text)
        /\ output'.tool = "create_superset_chart" =>
            \A chart_name \in ChartNameArgs : \A filters \in FilterArgs :
                \A r \in CreateChartResponses :
                    /\ ~is_authenticated(Self, clock) \/ r.status_code # 201
                    /\ CreateSupersetChartOn(output'.query, chart_name, filters, r)
                    => BeginsWithError(output'.text)
        /\ output'.tool = "get_available_datasets" =>
            \A r \in DatasetResponses :
                /\ ~is_authenticated(Self, clock) \/ r.status_code # 200
                /\ GetAvailableDatasetsOn(r)
                => BeginsWithError(output'.text)
        /\ output'.tool = "list_existing_charts" =>
            \A r \in ChartListResponses :
                /\ ~is_authenticated(Self, clock) \/ r.status_code # 200
                /\ ListExistingChartsOn(r)
                => BeginsWithError(output'.text)
        /\ output'.tool = "create_chart_from_query" =>
            \A r \in SqlLabResponses : \A callable \in BOOLEAN :
                \A cr \in CreateChartResponses :
                    /\ \/ ~is_authenticated(Self, clock)
                       \/ r.status_code # 200
                       \/ ~callable
                       \/ cr.status_code # 201
                    /\ CreateChartFromQueryOn(output'.query, r, callable, cr)
                    => BeginsWithError(output'.text)
    ]_vars


\* The place of the first line break of s from start on, or 0.
NextBreak(s, start) ==
    IF \E i \in start..Len(s) : Char(s, i) = "\n"
    THEN CHOOSE i \in start..Len(s) :
            Char(s, i) = "\n" /\ \A j \in start..(i - 1) : Char(s, j) # "\n"
    ELSE 0

\* The lines of a text from start on.
RECURSIVE SplitLines(_, _)
SplitLines(s, start) ==
    LET Cut(i) ==
            IF i = 0 THEN <<SubSeq(s, start, Len(s))>>
            ELSE <<SubSeq(s, start, i - 1)>> \o SplitLines(s, i + 1)
    IN  Cut(NextBreak(s, start))

\* The rule under the column headers: a line of dashes.
Rule(line) == line # "" /\ \A i \in 1..Len(line) : Char(line, i) = "-"

\* The number of data rows a result text shows: the lines between the
\* rule under the headers and the next empty line.
ShownRows(text) ==
    LET Count(lines) ==
            IF \E d \in DOMAIN lines : Rule(lines[d])
            THEN LET d == CHOOSE d \in DOMAIN lines : Rule(lines[d])
                 IN  Cardinality({i \in DOMAIN lines :
                        i > d /\ \A j \in (d + 1)..i : lines[j] # ""})
            ELSE 0
    IN  Count(SplitLines(text, 1))

Minimum(a, b) == IF a < b THEN a ELSE b

\* What C14 says of the text for a result of n rows.
RowsShown(text, n) ==
    /\ ShownRows(text) = Minimum(n, 10)
    /\ In(" more rows", text) <=> n > 10
    /\ n > 10 => In("\n... and " \o ToString(n - 10) \o " more rows", text)
    /\ EndsWith(text, "\nTotal rows: " \o ToString(n))

\* execute_query returned a successful result of one row or more (rows
\* of one value or more) to execute_sql_query.
RowsReturned ==
    /\ output.tool = "execute_sql_query"
    /\ output.result.status = "success"
    /\ RowsOf(output.result.data) # <<>>
    /\ RowsOf(output.result.data)[1].items # <<>>

\* C14: when execute_query returns a successful result of n >= 1 rows to
\* execute_sql_query, the text of the tool shows min(n, 10) data rows, has
\* the "... and n-10 more rows" suffix if and only if n > 10, and ends
\* with the line "Total rows: n"; the one row {count: 42} gives a text
\* with "42" and "Total rows: 1".
C14_RowsShownAndCounted ==
    RowsReturned =>
        /\ RowsShown(output.text, Len(RowsOf(output.result.data)))
        /\ output.result.data = "rows1" => In("42", output.text)


\* C20: POST /query answers 500 "Agent not initialized" when the agent is
\* not initialized, answers 500 with the message of the exception in the
\* detail when agent.run raises, and otherwise answers with the output of
\* the agent as answer and status "success".
C20_QueryAnswers ==
    [][\A question \in Questions : \A invocation \in Invocations :
        QueryAgentOn(question, invocation) =>
            IF agent = NoAgent THEN
                reply'.status_code = 500 /\ reply'.detail = "Agent not initialized"
            ELSE IF invocation.exc # "none" THEN
                /\ reply'.status_code = 500
                /\ EndsWith(reply'.detail, ": " \o invocation.exc)
            ELSE
                /\ reply'.status_code = 200
                /\ reply'.answer = invocation.output
                /\ reply'.status = "success"
                /\ reply'.detail = ""
    ]_vars

\* C20: the agent is initialized and a call of agent.run raised.
C20_AgentRaised ==
    /\ agent # NoAgent
    /\ reply.status_code = 500
    /\ reply.detail = "Agent error: ThrottlingException"

\* C23: execute_query authenticates on first use and in order: a call, at
\* any of its steps, sends a login request only if is_authenticated() was
\* false at its entry; a failed authentication makes it return status
\* "error" with the message of authenticate(), with no database list
\* request and no execute request sent; and the execute POST is sent only
\* by a call that found is_authenticated() true at entry or whose
\* authenticate() returned status "success".
C23_LazyInOrder ==
    /\ [][(\/ /\ pc = "resolve" /\ pc' # pc
               /\ call.database_id = NoDatabaseId
               /\ ~is_authenticated(Self, clock)
            \/ reauths' > reauths) => ~call.entry]_vars
    /\ [][\A x \in EnsureExchanges :
            (/\ ExecuteQueryOn(x)
             /\ ~is_authenticated(Self, clock)
             /\ authenticate(Self, clock, x[1], x[2]).ret.status # "success") =>
                /\ pc' = "idle"
                /\ last'.ret.status = "error"
                /\ last'.ret.message = authenticate(Self, clock, x[1], x[2]).ret.message
                /\ last'.db = NoDatabases
                /\ posts' = 0]_vars
    /\ [][\A x \in EnsureExchanges :
            ExecuteQueryOn(x) =>
                ((pc' = "resolve") <=>
                    \/ is_authenticated(Self, clock)
                    \/ authenticate(Self, clock, x[1], x[2]).ret.status = "success")]_vars
    /\ [][posts' > posts => pc \in {"post", "retry"}]_vars

\* C23, amended: up to its execute POST, a call sends a login request only
\* where is_authenticated() is false at that moment (line 239 at entry,
\* line 185 of get_database_id): a call that finds is_authenticated() true
\* at entry goes on with the token fields as they were.  A failed
\* authentication at entry makes it return status "error" with the message
\* of authenticate(), before any database list request and any execute
\* request; it goes on exactly when is_authenticated() was true or
\* authenticate() returned status "success".  The execute POST is sent
\* after that only.  One more login is sent by force_reauthenticate()
\* when the POST is answered 401, whatever is_authenticated() was at entry.
C23_LazyBeforePost ==
    /\ [][\A x \in EnsureExchanges :
            ExecuteQueryOn(x) =>
                /\ (x # NoExchange) <=> ~is_authenticated(Self, clock)
                /\ is_authenticated(Self, clock) =>
                        /\ manager' = manager
                        /\ pc' = "resolve"
                /\ (pc' = "resolve") <=>
                        \/ is_authenticated(Self, clock)
                        \/ authenticate(Self, clock, x[1], x[2]).ret.status = "success"
                /\ pc' # "resolve" =>
                        /\ pc' = "idle"
                        /\ last'.ret.status = "error"
                        /\ last'.ret.message =
                                authenticate(Self, clock, x[1], x[2]).ret.message
                        /\ last'.db = NoDatabases
                        /\ posts' = 0]_vars
    /\ [][\A x \in EnsureExchanges :
            (ExecuteQueryResolveOn(x) /\ is_authenticated(Self, clock)) =>
                manager' = manager]_vars
    /\ [][pc' # pc =>
            /\ pc' = "resolve" => (pc = "called" /\ call.op = "execute_query")
            /\ (pc' = "databases" /\ call'.op = "execute_query") => pc = "resolve"
            /\ pc' = "post" => pc \in {"resolve", "databases"}
            /\ pc' = "retry" => (pc = "post" /\ reauths' = reauths + 1)]_vars
    /\ [][posts' > posts => pc \in {"post", "retry"}]_vars

\* Witness of C23: a call that found is_authenticated() true at entry had
\* its POST answered 401, made force_reauthenticate() log in again, and
\* sent the POST once more.
C23_LoginAfterAuthenticatedEntry ==
    /\ pc = "retry"
    /\ call.op = "execute_query"
    /\ call.entry
    /\ reauths = 1
    /\ posts = 1
    /\ is_authenticated(Self, clock)

\* C24: the request that execute_query sends again after a successful
\* force_reauthenticate() goes to the endpoint of the first one with the
\* payload of the first one (client_id, sql_editor_id, database_id, sql,
\* queryLimit); its headers are built from the tokens held now, which are
\* the ones the reauthentication obtained, so that a bearer header carries
\* another token than the first request did.
C24_RetryIdentical ==
    pc = "retry" =>
        LET again == retry_request(Self, request)
        IN  /\ request.url = execute_url
            /\ request.payload =
                    execute_payload(call.sql, call.database_id, call.query_limit)
            /\ again.url = request.url
            /\ again.payload = request.payload
            /\ again.payload.client_id = request.payload.client_id
            /\ again.payload.sql_editor_id = request.payload.sql_editor_id
            /\ again.headers = get_headers(Self)
            /\ access_token # None =>
                    /\ again.headers.Authorization = <<"Bearer", access_token>>
                    /\ again.headers.Authorization # request.headers.Authorization
            /\ again.headers.XCSRFToken \in {None, CsrfTokenOf(access_token)}

\* Witness of C24: the first POST was sent with the bearer token at1 and a
\* query limit of 5, the reauthentication obtained at2, and the POST is
\* about to be sent again.
C24_ResendWithNewToken ==
    /\ pc = "retry"
    /\ posts = 1
    /\ request.headers.Authorization = <<"Bearer", "at1">>
    /\ request.payload.queryLimit = 5
    /\ access_token = "at2"
    /\ retry_request(Self, request).headers.Authorization = <<"Bearer", "at2">>
    /\ retry_request(Self, request).payload = request.payload

\* C26: is_authenticated() changes from true to false only in a step in
\* which the clock reaches the recorded expiry (the token fields staying as
\* they are) or in which force_reauthenticate() runs (called by a caller,
\* or by execute_query after a 401); no other operation takes an
\* authenticated session out of that state.
C26_LeavesAuthenticatedByExpiryOrForce ==
    [][(is_authenticated(Self, clock) /\ ~is_authenticated(Self', clock')) =>
        \/ /\ clock' > clock
           /\ clock' >= token_expiry
           /\ manager' = manager
        \/ Entered("force_reauthenticate")
        \/ reauths' = reauths + 1]_vars

\* C28: an authenticate() that returns status "error" leaves access_token,
\* refresh_token, csrf_token and token_expiry as they were before the
\* call, so that is_authenticated() does not become true through it.
C28_ErrorLeavesTokensAsTheyWere ==
    [][\A x \in AuthExchanges(access_token) :
        (AuthenticateOn(x) /\ last'.ret.status = "error") =>
            /\ access_token' = access_token
            /\ refresh_token' = refresh_token
            /\ csrf_token' = csrf_token
            /\ token_expiry' = token_expiry
            /\ ~is_authenticated(Self, clock) => ~is_authenticated(Self', clock')]_vars

\* C29: within execute_query, force_reauthenticate() runs only in answer
\* to a 401 of the first execute POST.  A database list request that is
\* answered 401 or with any other status but 200 (or not at all) makes the
\* call return the error "Could not find database" with the token fields
\* as they were; a results request answered 401 or with any other status
\* but 200 counts as one attempt of the poll loop, which goes on (or ends
\* with "Query timeout" after the last attempt) with the token fields as
\* they were; neither makes a reauthentication.
C29_ReauthenticationOnFirstPostOnly ==
    /\ [][((pc # "called" /\ call.op = "execute_query")
            /\ (session' # session \/ reauths' > reauths)) =>
                /\ pc = "post"
                /\ posts = 0
                /\ reauths = 0
                /\ reauths' = 1]_vars
    /\ [][(pc = "post" /\ reauths' > reauths) =>
            \A er \in ExecuteResponses : \A x \in AuthExchanges(access_token) :
                ExecuteQueryPostOn(er, x) =>
                    (er.kind = "http" /\ er.status_code = 401)]_vars
    /\ [][\A dr \in DatabaseResponses :
            (/\ pc = "databases"
             /\ call.op = "execute_query"
             /\ (dr.kind # "http" \/ dr.status_code # 200)
             /\ DatabaseListOn(dr)) =>
                /\ pc' = "idle"
                /\ last'.ret.status = "error"
                /\ last'.ret.message = <<"Could not find database", call.database_name>>
                /\ manager' = manager
                /\ reauths' = 0
                /\ posts' = 0]_vars
    /\ [][\A sr \in ResultsResponses :
            (/\ pc = "poll"
             /\ sr.kind = "http"
             /\ sr.status_code # 200
             /\ ExecuteQueryPollOn(sr)) =>
                /\ manager' = manager
                /\ reauths' = reauths
                /\ posts' = posts
                /\ polls' = polls + 1
                /\ IF call.attempt + 1 < max_attempts
                   THEN pc' = "poll" /\ call'.attempt = call.attempt + 1
                   ELSE /\ pc' = "idle"
                        /\ last'.ret.message = <<"Query timeout">>]_vars

\* Witness of C29: every results request of a call was answered before
\* the last one, the last one was answered 401, and the call returned the
\* timeout error without a reauthentication.
C29_UnauthorizedPollIgnored ==
    /\ pc = "idle"
    /\ last.op = "execute_query"
    /\ polls = max_attempts
    /\ last.response.kind = "http"
    /\ last.response.status_code = 401
    /\ last.ret.message = <<"Query timeout">>
    /\ reauths = 0
    /\ posts = 1

\* C30: the POST sent again after a reauthentication is never polled:
\* execute_query returns in the step that receives its answer, with status
\* "success" exactly when the answer has status 200 or 202 and a payload
\* with status "success" or with data, and in every other case (a 202
\* that is pending, an error payload, any failure) with the error "Query
\* failed after reauthentication".
C30_RetryNeverPolled ==
    [][\A rr \in ExecuteResponses :
        ExecuteQueryRetryOn(rr) =>
            /\ pc' = "idle"
            /\ polls' = 0
            /\ (last'.ret.status = "success") <=>
                    /\ rr.kind = "http" /\ rr.status_code \in {200, 202} /\ rr.json
                    /\ (rr.payload.status = "success" \/ rr.payload.data # None)
            /\ last'.ret.status # "success" =>
                    /\ last'.ret.status = "error"
                    /\ last'.ret.message = <<"Query failed after reauthentication">>]_vars

\* C30, amended: as C30, but the error is "Query failed after
\* reauthentication" when the POST sent again got a response (one of
\* another status than 200 and 202, or a JSON payload that has neither
\* status "success" nor data); when the request raised, or a body of
\* status 200 or 202 is not JSON, the except clause of execute_query gives
\* the error "Query execution error".
C30_RetryReturnsAtOnce ==
    [][\A rr \in ExecuteResponses :
        ExecuteQueryRetryOn(rr) =>
            LET answered == rr.kind = "http" /\ (rr.status_code \in {200, 202} => rr.json)
            IN  /\ pc' = "idle"
                /\ polls' = 0
                /\ posts' = 2
                /\ (last'.ret.status = "success") <=>
                        /\ rr.kind = "http" /\ rr.status_code \in {200, 202} /\ rr.json
                        /\ (rr.payload.status = "success" \/ rr.payload.data # None)
                /\ last'.ret.status = "success" => last'.ret = QuerySuccess(rr.payload)
                /\ (last'.ret.status # "success" /\ answered) =>
                        /\ last'.ret.status = "error"
                        /\ last'.ret.message = <<"Query failed after reauthentication">>
                /\ ~answered =>
                        /\ last'.ret.status = "error"
                        /\ last'.ret.message = <<"Query execution error">>]_vars

\* Witness of C30: the POST sent again was answered 202 with a pending
\* payload, and the call returned the error without a results request.
C30_PendingRetryNotPolled ==
    /\ pc = "idle"
    /\ last.op = "execute_query"
    /\ posts = 2
    /\ polls = 0
    /\ last.response.status_code = 202
    /\ last.response.payload.status = "pending"
    /\ last.ret.status = "error"
    /\ last.ret.message = <<"Query failed after reauthentication">>

\* execute_query returned a successful result of one row or more (rows of
\* one value or more) to one of the two query tools.
RowsReturnedToQueryTool ==
    /\ output.tool \in {"execute_sql_query", "execute_aggregation_query"}
    /\ output.result.status = "success"
    /\ RowsOf(output.result.data) # <<>>
    /\ RowsOf(output.result.data)[1].items # <<>>

\* C25: a successful result is formatted whether its rows are mappings
\* from column name to value or positional sequences, with or without
\* column descriptors: the query tools return a text that is no error
\* text and that shows the rows as a table (all of them for
\* execute_aggregation_query, the first ten for execute_sql_query).
C25_BothRowFormsFormatted ==
    RowsReturnedToQueryTool =>
        LET n == Len(RowsOf(output.result.data))
        IN  /\ ~BeginsWithError(output.text)
            /\ ShownRows(output.text) =
                    (IF output.tool = "execute_sql_query" THEN Minimum(n, 10) ELSE n)

\* The statistics query of explore_table_structure was the last query the
\* tool sent.
StatisticsQuerySentLast ==
    /\ output.tool = "explore_table_structure"
    /\ output.sent
    /\ In("COUNT(DISTINCT *)", output.payload.sql)

\* C27: a COUNT(DISTINCT *) statistics query of explore_table_structure
\* that fails, be it by an error result of the remote service, is followed
\* by the query "SELECT COUNT(*) as total_rows FROM <table>", whose result
\* the tool reports: the statistics query is the last query of the tool
\* only when it succeeded, and the text of the tool says "Could not
\* retrieve statistics" only of the short query.
C27_StatisticsFallback ==
    /\ StatisticsQuerySentLast => output.result.status = "success"
    /\ (output.tool = "explore_table_structure"
        /\ In("Could not retrieve statistics", output.text)) =>
            /\ output.sent => output.payload.sql = "SELECT COUNT(*) as total_rows FROM t"

\* C22: as long as reset_instance() was not called, at most one
\* SupersetAuthManager was constructed, and the threads that get_instance()
\* returned to hold the same object, hence the same tokens, however their
\* calls were interleaved.
C22_OneInstance ==
    resets = 0 =>
        /\ Len(instances) <= 1
        /\ \A t, u \in Threads :
            caller[t].got # 0 /\ caller[u].got # 0 =>
                /\ caller[t].got = caller[u].got
                /\ instances[caller[t].got] = instances[caller[u].got]

\* C21: execute_query calls of several threads on the shared manager are
\* not kept apart by any lock.  A thread whose execute POST is answered 401
\* runs its own force_reauthenticate(), whatever the other threads are
\* doing: it clears the token fields, replaces the session and counts one
\* more reauthentication of its own.  A thread builds its execute request
\* from the fields as they are when it sends it: a request built while
\* another thread is inside force_reauthenticate(), the fields cleared and
\* the login not completed, carries no bearer header, even when the thread
\* was authenticated on entry.
C21_NoLockAroundReauthentication ==
    [][\A t \in Threads :
        /\ thread[t].pc = "sent" =>
            \A er \in RaceResponses(thread[t].request) :
                er.status_code = 401 /\ ThreadResponseOn(t, er) =>
                    /\ thread'[t].pc = "reauth"
                    /\ thread'[t].reauths = thread[t].reauths + 1
                    /\ access_token' = None
                    /\ csrf_token' = None
                    /\ refresh_token' = None
                    /\ token_expiry' = NoExpiry
                    /\ session' # session
        /\ thread[t].pc \in {"post", "retry"} /\ thread'[t].pc \in {"sent", "resent"} =>
            /\ thread'[t].request.headers = get_headers(Self)
            /\ thread'[t].cleared <=> ReauthenticationInProgress(t)
            /\ thread'[t].cleared => thread'[t].request.headers.Authorization = <<>>
      ]_vars

\* Two threads are inside force_reauthenticate() at once, and one of them,
\* authenticated on entry, had sent its request without a bearer header
\* while the other was there.
C21_ReauthenticationRace ==
    \E t, u \in Threads :
        /\ t # u
        /\ thread[t].pc = "reauth"
        /\ thread[u].pc = "reauth"
        /\ thread[t].reauths = 1
        /\ thread[u].reauths = 1
        /\ thread[u].entry
        /\ thread[u].cleared
        /\ thread[u].request.headers.Authorization = <<>>
        /\ access_token = None

====
